---- MODULE Spec2Model ----
(***************************************************************************)
(* Gemini-API-Pro: the account rotation manager                            *)
(* (src/src/gemini_webapi/account_manager.py) and the image retry loop of  *)
(* the OpenAI-compatible proxy (src/openai_server.py).                     *)
(*                                                                         *)
(* The credential store is the remote table gemini_accounts; the manager   *)
(* talks to it with one GET and one PATCH per get_next_account call.  The  *)
(* two requests are separate steps, so calls of several callers interleave *)
(* between them.                                                           *)
(***************************************************************************)
EXTENDS Integers, Sequences, FiniteSets, TLC

\* ------------------------------------------------------------------ bounds

\* Total number of get_next_account calls started in a behaviour.
MaxCalls == 3

\* Number of concurrent callers of the manager.
NumCallers == 2

\* ---------------------------------------------------------------- universe

Aliases == {"a", "b", "c"}

\* call_count values of the rows the store holds initially.
InitCounts == {0, 2, 5}

\* (psid, psidts) pairs a stored row may hold: both present, or one empty.
InitTokens == {<<"sid", "ts">>, <<"", "ts">>, <<"sid", "">>}

NULL == "NULL"

Callers == 1 .. NumCallers

\* The caller of the sequential specification: the first one.
SeqCaller == CHOOSE p \in Callers : \A q \in Callers : p <= q

\* A row of gemini_accounts.  proxy and headers are optional columns; the
\* initial rows carry a value that depends on the alias only.
InitProxy(a) == IF a = "a" THEN "http://proxy" ELSE NULL

InitHeaders(a) == IF a = "b" THEN "ua" ELSE NULL

InitRows(a) ==
    { [enabled |-> e, call_count |-> c, psid |-> t[1], psidts |-> t[2],
       proxy |-> InitProxy(a), headers |-> InitHeaders(a), last_used |-> 0,
       last_updated |-> 0]
      : e \in BOOLEAN, c \in InitCounts, t \in InitTokens }

\* Every table over a subset of the aliases (alias is the primary key).
InitStores ==
    UNION { { s \in [S -> UNION {InitRows(a) : a \in Aliases}] :
                \A a \in S : s[a] \in InitRows(a) } : S \in SUBSET Aliases }

VARIABLES
    store,      \* the table gemini_accounts: alias -> row
    clock,      \* datetime.now(), as a tick counter
    calls,      \* get_next_account calls started so far
    pc,         \* per caller: "idle", "fetched", "returned", "raised"
    got,        \* per caller: outcome of the GET of the current call
    acct,       \* per caller: accounts[0] as read by the GET
    upd,        \* per caller: outcome of the PATCH of the current call
    ret,        \* per caller: the value returned or the exception raised
    pre,        \* history: the table as it was at the latest GET
    store0,     \* history: the table of the initial state
    raced,      \* history: per caller, its call read the row another
                \* caller had read and not yet written
    img,        \* one inbound image request: the handler's locals, its
                \* position, and counts of what it has done
    chat,       \* one inbound chat request: the handler's and the
                \* generators' locals, the files on disk, the events sent
    sweep,      \* the background task cleanup_old_files: its locals and
                \* position, and the directory static/images
    adm,        \* one call of get_account or reset_counts and its result
    bridge      \* one POST /api/cookies of cookie_bridge: the handler's
                \* locals, its position and its result

amVars ==
    <<store, clock, calls, pc, got, acct, upd, ret, pre, store0, raced>>

vars == <<amVars, img, chat, sweep, adm, bridge>>

\* ------------------------------------------------- the store's query (GET)

\* Mutant: the filter left out of the query.
EnabledAliasesUnfiltered(s) == DOMAIN s

\* enabled=eq.true
EnabledAliases(s) == {a \in DOMAIN s : s[a].enabled}

\* Mutant: order=call_count.desc.
LeastUsedDescending(s) ==
    {a \in EnabledAliases(s) :
        \A b \in EnabledAliases(s) : s[a].call_count >= s[b].call_count}

\* Mutant: no order given, any enabled row may come first.
LeastUsedUnordered(s) == EnabledAliases(s)

\* order=call_count.asc: the rows that may come first.
LeastUsed(s) ==
    {a \in EnabledAliases(s) :
        \A b \in EnabledAliases(s) : s[a].call_count <= s[b].call_count}

\* A row as the JSON object the store returns: the columns and the key.
AccountOf(s, a) ==
    [alias |-> a, enabled |-> s[a].enabled, call_count |-> s[a].call_count,
     psid |-> s[a].psid, psidts |-> s[a].psidts, proxy |-> s[a].proxy,
     headers |-> s[a].headers, last_used |-> s[a].last_used,
     last_updated |-> s[a].last_updated]

\* Mutant: when no row is enabled, some stored row is handed out instead.
QueryAccountsWithFallback(s) ==
    IF LeastUsed(s) # {} THEN {<<AccountOf(s, a)>> : a \in LeastUsed(s)}
    ELSE IF DOMAIN s = {} THEN {<< >>}
    ELSE {<<AccountOf(s, a)>> : a \in DOMAIN s}

\* limit=1: the bodies resp.json() may be; rows of equal call_count come in
\* an order the store chooses.
QueryAccounts(s) ==
    IF LeastUsed(s) = {} THEN {<< >>}
    ELSE {<<AccountOf(s, a)>> : a \in LeastUsed(s)}

\* ------------------------------------------------- the store's update (PATCH)

\* Mutant: the PATCH carries no alias filter.
PatchUsageEveryRow(s, alias, new_count, now) ==
    [a \in DOMAIN s |->
        [s[a] EXCEPT !.call_count = new_count, !.last_used = now]]

\* PATCH ?alias=eq.{alias} with {call_count, last_used}.
PatchUsage(s, alias, new_count, now) ==
    [a \in DOMAIN s |->
        IF a = alias
        THEN [s[a] EXCEPT !.call_count = new_count, !.last_used = now]
        ELSE s[a]]

\* --------------------------------------------------------- get_next_account

NoAccount == [alias |-> "none"]

NoReturn == [kind |-> "none"]

Raised(msg) == [kind |-> "error", error |-> msg]

Returned(snapshot) == [kind |-> "ok", account |-> snapshot]

\* Mutant: the count is raised by two.
NewCountByTwo(account) == account.call_count + 2

\* new_count = (account.get("call_count") or 0) + 1
NewCount(account) == account.call_count + 1

\* Mutant: the count as read is returned, not the incremented one.
SnapshotStaleCount(account, new_count) ==
    [alias |-> account.alias, psid |-> account.psid, psidts |-> account.psidts,
     proxy |-> account.proxy, headers |-> account.headers,
     call_count |-> account.call_count]

\* The dict get_next_account returns.
Snapshot(account, new_count) ==
    [alias |-> account.alias, psid |-> account.psid, psidts |-> account.psidts,
     proxy |-> account.proxy, headers |-> account.headers,
     call_count |-> new_count]

\* Outcomes of requests.get: a 200 answer, another status, or an exception
\* of the request itself.
GetOutcomes == {"200", "error_status", "exception"}

\* Outcomes of requests.patch: 200/204, another status, or an exception.
PatchOutcomes == {"ok", "rejected", "exception"}

\* Callers of other calls that hold the row `alias` read and not yet written.
Holders(p, alias) ==
    {q \in Callers \ {p} : pc[q] = "fetched" /\ acct[q].alias = alias}

\* Lines 37-55: the GET and what the code makes of the answer.
Fetch(p) ==
    /\ pc[p] \in {"idle", "returned", "raised"}
    /\ calls' = calls + 1
    /\ pre' = store
    /\ upd' = [upd EXCEPT ![p] = "none"]
    /\ \E outcome \in GetOutcomes :
         /\ got' = [got EXCEPT ![p] = outcome]
         /\ \/ /\ outcome = "exception"
               /\ pc' = [pc EXCEPT ![p] = "raised"]
               /\ ret' = [ret EXCEPT ![p] = Raised("RequestException")]
               /\ acct' = [acct EXCEPT ![p] = NoAccount]
               /\ raced' = [raced EXCEPT ![p] = FALSE]
            \/ /\ outcome = "error_status"
               /\ pc' = [pc EXCEPT ![p] = "raised"]
               /\ ret' = [ret EXCEPT ![p] = Raised("FetchFailed")]
               /\ acct' = [acct EXCEPT ![p] = NoAccount]
               /\ raced' = [raced EXCEPT ![p] = FALSE]
            \/ /\ outcome = "200"
               /\ \E accounts \in QueryAccounts(store) :
                    IF accounts = << >>
                    THEN /\ pc' = [pc EXCEPT ![p] = "raised"]
                         /\ ret' = [ret EXCEPT ![p] = Raised("NoAccountAvailable")]
                         /\ acct' = [acct EXCEPT ![p] = NoAccount]
                         /\ raced' = [raced EXCEPT ![p] = FALSE]
                    ELSE /\ pc' = [pc EXCEPT ![p] = "fetched"]
                         /\ ret' = [ret EXCEPT ![p] = NoReturn]
                         /\ acct' = [acct EXCEPT ![p] = accounts[1]]
                         /\ raced' = [q \in Callers |->
                                        IF q = p
                                        THEN Holders(p, accounts[1].alias) # {}
                                        ELSE raced[q]
                                             \/ q \in Holders(p, accounts[1].alias)]
    /\ UNCHANGED <<store, clock, store0>>

\* Lines 57-86: the PATCH, the warning on a bad status, and the return.
Update(p) ==
    /\ pc[p] = "fetched"
    /\ clock' = clock + 1
    /\ \E outcome \in PatchOutcomes :
         /\ upd' = [upd EXCEPT ![p] = outcome]
         /\ \/ /\ outcome = "ok"
               /\ store' = PatchUsage(store, acct[p].alias, NewCount(acct[p]), clock')
               /\ pc' = [pc EXCEPT ![p] = "returned"]
               /\ ret' = [ret EXCEPT ![p] =
                            Returned(Snapshot(acct[p], NewCount(acct[p])))]
            \/ /\ outcome = "rejected"
               /\ store' = store
               /\ pc' = [pc EXCEPT ![p] = "returned"]
               /\ ret' = [ret EXCEPT ![p] =
                            Returned(Snapshot(acct[p], NewCount(acct[p])))]
            \/ /\ outcome = "exception"
               \* The request may fail before or after the store applied it.
               /\ \E applied \in BOOLEAN :
                    store' = IF applied
                             THEN PatchUsage(store, acct[p].alias,
                                             NewCount(acct[p]), clock')
                             ELSE store
               /\ pc' = [pc EXCEPT ![p] = "raised"]
               /\ ret' = [ret EXCEPT ![p] = Raised("RequestException")]
    /\ UNCHANGED <<calls, got, acct, pre, store0, raced>>

\* ------------------------------------------------------------ message text

\* A message is the sequence of its characters.

\* "ask me again later" (openai_server.py:269)
AskAgainPhrase ==
    <<"a", "s", "k", " ", "m", "e", " ", "a", "g", "a", "i", "n", " ", "l",
      "a", "t", "e", "r">>

\* "more images than usual" (openai_server.py:269)
MoreImagesPhrase ==
    <<"m", "o", "r", "e", " ", "i", "m", "a", "g", "e", "s", " ", "t", "h",
      "a", "n", " ", "u", "s", "u", "a", "l">>

\* "No image generated" (openai_server.py:268)
NoImageGenerated ==
    <<"N", "o", " ", "i", "m", "a", "g", "e", " ", "g", "e", "n", "e", "r",
      "a", "t", "e", "d">>

\* "Ask Me Again Later."
TextAskAgain ==
    <<"A", "s", "k", " ", "M", "e", " ", "A", "g", "a", "i", "n", " ", "L",
      "a", "t", "e", "r", ".">>

\* "Making MORE IMAGES than usual"
TextMoreImages ==
    <<"M", "a", "k", "i", "n", "g", " ", "M", "O", "R", "E", " ", "I", "M",
      "A", "G", "E", "S", " ", "t", "h", "a", "n", " ", "u", "s", "u", "a",
      "l">>

\* "ask me later" (neither phrase)
TextAskLater ==
    <<"a", "s", "k", " ", "m", "e", " ", "l", "a", "t", "e", "r">>

\* "Quota exceeded"
TextQuota ==
    <<"Q", "u", "o", "t", "a", " ", "e", "x", "c", "e", "e", "d", "e", "d">>

UpperCase ==
    <<"A", "B", "C", "D", "E", "F", "G", "H", "I", "J", "K", "L", "M", "N",
      "O", "P", "Q", "R", "S", "T", "U", "V", "W", "X", "Y", "Z">>

LowerCase ==
    <<"a", "b", "c", "d", "e", "f", "g", "h", "i", "j", "k", "l", "m", "n",
      "o", "p", "q", "r", "s", "t", "u", "v", "w", "x", "y", "z">>

\* The overload test of the image paths:
\* "ask me again later" in t.lower() or "more images than usual" in t.lower()
LowerChar(c) ==
    IF \E i \in 1 .. Len(UpperCase) : UpperCase[i] = c
    THEN LowerCase[CHOOSE i \in 1 .. Len(UpperCase) : UpperCase[i] = c]
    ELSE c

Lower(t) == [i \in 1 .. Len(t) |-> LowerChar(t[i])]

Contains(sub, t) ==
    \E i \in 0 .. (Len(t) - Len(sub)) : SubSeq(t, i + 1, i + Len(sub)) = sub

\* Mutant: the phrases are looked for in the text as it is.
IsOverloadCaseSensitive(t) ==
    \/ Contains(AskAgainPhrase, t)
    \/ Contains(MoreImagesPhrase, t)

IsOverload(t) ==
    \/ Contains(AskAgainPhrase, Lower(t))
    \/ Contains(MoreImagesPhrase, Lower(t))

\* ------------------------------------------------------- the image request

MAX_RETRIES == 3

\* Largest number of images one upstream response carries.
MaxImages == 1

Endpoints == {"generations", "edits", "edits_multi"}

\* The caller of the manager on behalf of the image request.
ImgCaller == SeqCaller

\* Texts the upstream answers with, or raises with.
Texts == {TextAskAgain, TextMoreImages, TextAskLater, TextQuota}

\* What one upstream exchange may come to: a response with images (whose
\* saving may raise), a response without images and with some or no text, or
\* an exception.
ExchangeOutcomes ==
    {[kind |-> "images", n |-> n, text |-> << >>] : n \in 1 .. MaxImages}
    \cup {[kind |-> "save_exception", n |-> n, text |-> t] :
            n \in 1 .. MaxImages, t \in Texts}
    \cup {[kind |-> "no_images", n |-> 0, text |-> t] : t \in Texts \cup {<< >>}}
    \cup {[kind |-> "exception", n |-> 0, text |-> t] : t \in Texts}

\* What client.init() may come to: it returns, or raises with some text.
InitOutcomes ==
    {[ok |-> TRUE, text |-> << >>]} \cup {[ok |-> FALSE, text |-> t] : t \in Texts}

\* No client.init() made yet.
NoInit == [ok |-> TRUE, text |-> <<"None">>]

\* No exchange made yet.
NoOutcome == [kind |-> "none", n |-> 0, text |-> << >>]

\* str(None), the value last_error is formatted to before any overload.
NoError == <<"None">>

Nothing == [kind |-> "none", status |-> 0, n |-> 0, detail |-> << >>]

\* return {"created": ..., "data": data}
Success(n) == [kind |-> "return", status |-> 200, n |-> n, detail |-> << >>]

\* raise HTTPException(status_code=status, detail=detail)
HttpError(status, detail) ==
    [kind |-> "raise", status |-> status, n |-> 0, detail |-> detail]

\* continue
Continue == [kind |-> "continue", status |-> 0, n |-> 0, detail |-> << >>]

\* f"Rate limited after {MAX_RETRIES} retries: {last_error}"
ExhaustedDetail(last_error) == <<"Rate limited after 3 retries: ">> \o last_error

\* f"No available accounts: {e}"
NoAccountsDetail(e) == <<"No available accounts: ", e>>

InitFailedDetail == <<"Failed to initialize Gemini client">>

ImgStart(endpoint) ==
    [pc |-> "start", endpoint |-> endpoint, uploads |-> 0, attempt |-> 0,
     client |-> "none", open |-> 0, last_error |-> NoError,
     outcome |-> NoOutcome, init |-> NoInit, pending |-> Nothing,
     result |-> Nothing,
     nSelect |-> 0, nInit |-> 0, nExchange |-> 0, nSleep |-> 0, nClose |-> 0]

\* No image request: the value of img in the specifications of the manager.
ImgOff == [ImgStart("generations") EXCEPT !.pc = "off"]

\* The handler's prologue: the edit paths write the uploaded files once;
\* then the loop starts with attempt 1.
ImgReceive ==
    /\ img.pc = "start"
    /\ img' = [img EXCEPT !.pc = "loop", !.attempt = 1,
                          !.uploads = IF img.endpoint = "generations" THEN 0
                                      ELSE 1]
    /\ UNCHANGED <<amVars, chat, sweep, adm, bridge>>

\* Mutant: range(1, MAX_RETRIES + 2).
LoopContinuesOnceMore(attempt) == attempt <= MAX_RETRIES + 1

\* for attempt in range(1, MAX_RETRIES + 1)
LoopContinues(attempt) == attempt <= MAX_RETRIES

\* The head of the loop: client = None and the next attempt, or the end of
\* the loop and the raise that follows it.
ImgLoop ==
    /\ img.pc = "loop"
    /\ IF LoopContinues(img.attempt)
       THEN img' = [img EXCEPT !.pc = "select", !.client = "none"]
       ELSE img' = [img EXCEPT !.pc = "done",
                       !.result = HttpError(500, ExhaustedDetail(img.last_error))]
    /\ UNCHANGED <<amVars, chat, sweep, adm, bridge>>

\* get_gemini_client: manager.get_next_account(), its GET.
ImgFetch ==
    /\ img.pc = "select"
    /\ Fetch(ImgCaller)
    /\ img' = [img EXCEPT !.pc = "selecting", !.nSelect = @ + 1]
    /\ UNCHANGED <<chat, sweep, adm, bridge>>

\* get_gemini_client: manager.get_next_account(), its PATCH.
ImgUpdate ==
    /\ img.pc = "selecting"
    /\ Update(ImgCaller)
    /\ UNCHANGED <<img, chat, sweep, adm, bridge>>

\* Mutant: a failed selection is slept on and retried.
ImgClientRetries ==
    /\ img.pc = "selecting"
    /\ \/ /\ pc[ImgCaller] = "raised"
          /\ img' = [img EXCEPT !.pc = "sleep", !.pending = Continue]
       \/ /\ pc[ImgCaller] = "returned"
          /\ img' = [img EXCEPT !.pc = "init", !.client = "created",
                                !.open = @ + 1]
    /\ UNCHANGED <<amVars, chat, sweep, adm, bridge>>

\* get_gemini_client after get_next_account: the 503 on any exception, or
\* the GeminiClient built from the returned account.
ImgClient ==
    /\ img.pc = "selecting"
    /\ \/ /\ pc[ImgCaller] = "raised"
          /\ img' = [img EXCEPT !.pc = "finally",
                        !.pending = HttpError(503,
                                      NoAccountsDetail(ret[ImgCaller].error))]
       \/ /\ pc[ImgCaller] = "returned"
          /\ img' = [img EXCEPT !.pc = "init", !.client = "created",
                                !.open = @ + 1]
    /\ UNCHANGED <<amVars, chat, sweep, adm, bridge>>

\* Mutant: the exception of client.init() reaches the handler as it is.
InitFailureUnwrapped(o) ==
    IF IsOverload(o.text) THEN Continue ELSE HttpError(500, o.text)

\* init_client on an exception of client.init(): whatever the exception, the
\* HTTPException with the fixed detail, which the handler re-raises.
InitFailure(o) == HttpError(500, InitFailedDetail)

\* init_client: client.init(); on an exception client.close() and the raise,
\* which the handler's except clauses take as they take any exception of the
\* try block.
ImgInit ==
    /\ img.pc = "init"
    /\ \E o \in InitOutcomes :
         IF o.ok
         THEN img' = [img EXCEPT !.pc = "exchange", !.client = "running",
                                 !.nInit = @ + 1, !.init = o]
         ELSE LET raised == InitFailure(o)
              IN  img' = [img EXCEPT
                            !.pc = IF raised = Continue THEN "sleep"
                                   ELSE "finally",
                            !.client = "closed",
                            !.nInit = @ + 1, !.nClose = @ + 1,
                            !.open = @ - 1, !.init = o,
                            !.last_error = IF raised = Continue THEN o.text
                                           ELSE @,
                            !.pending = raised]
    /\ UNCHANGED <<amVars, chat, sweep, adm, bridge>>

\* Mutant: every failure is retried, whatever its text.
AfterExchangeRetryAll(o) ==
    IF o.kind = "images" THEN Success(o.n) ELSE Continue

\* Mutant: a response without images and without an overload text returns
\* an empty data list.
AfterExchangeEmptySuccess(o) ==
    CASE o.kind = "images" -> Success(o.n)
      [] o.kind = "no_images" ->
           LET error_text == IF o.text = << >> THEN NoImageGenerated ELSE o.text
           IN  IF IsOverload(error_text) THEN Continue ELSE Success(0)
      [] OTHER ->
           IF IsOverload(o.text) THEN Continue ELSE HttpError(500, o.text)

\* What the try block makes of the upstream's answer, up to the sleep.
AfterExchange(o) ==
    CASE o.kind = "images" -> Success(o.n)
      [] o.kind = "no_images" ->
           LET error_text == IF o.text = << >> THEN NoImageGenerated ELSE o.text
           IN  IF IsOverload(error_text) THEN Continue
               ELSE HttpError(400, error_text)
      [] OTHER ->
           IF IsOverload(o.text) THEN Continue ELSE HttpError(500, o.text)

\* Mutant: last_error keeps the first overload message.
LastErrorKeepFirst(o, last_error) ==
    IF last_error # NoError \/ o.kind = "images" THEN last_error
    ELSE LET error_text == IF o.text = << >> THEN NoImageGenerated ELSE o.text
         IN  IF IsOverload(error_text) THEN error_text ELSE last_error

\* last_error after the exchange.
LastErrorAfter(o, last_error) ==
    CASE o.kind = "images" -> last_error
      [] o.kind = "no_images" ->
           LET error_text == IF o.text = << >> THEN NoImageGenerated ELSE o.text
           IN  IF IsOverload(error_text) THEN error_text ELSE last_error
      [] OTHER -> IF IsOverload(o.text) THEN o.text ELSE last_error

\* The upstream exchange (generate_content, or start_chat and send_message)
\* and the branch taken on its answer.
ImgExchange ==
    /\ img.pc = "exchange"
    /\ \E o \in ExchangeOutcomes :
         img' = [img EXCEPT
                   !.nExchange = @ + 1,
                   !.outcome = o,
                   !.last_error = LastErrorAfter(o, img.last_error),
                   !.pending = AfterExchange(o),
                   !.pc = IF AfterExchange(o) = Continue THEN "sleep"
                          ELSE "finally"]
    /\ UNCHANGED <<amVars, chat, sweep, adm, bridge>>

\* Mutant: continue without the sleep.
ImgSleepSkipped ==
    /\ img.pc = "sleep"
    /\ img' = [img EXCEPT !.pc = "finally"]
    /\ UNCHANGED <<amVars, chat, sweep, adm, bridge>>

\* Mutant: only the generation handler sleeps before its continue.
ImgSleepGenerationsOnly ==
    /\ img.pc = "sleep"
    /\ img' = [img EXCEPT !.pc = "finally",
                          !.nSleep = IF img.endpoint = "generations"
                                     THEN @ + 1 ELSE @]
    /\ UNCHANGED <<amVars, chat, sweep, adm, bridge>>

\* await asyncio.sleep(RETRY_DELAY), then continue.
ImgSleep ==
    /\ img.pc = "sleep"
    /\ img' = [img EXCEPT !.pc = "finally", !.nSleep = @ + 1]
    /\ UNCHANGED <<amVars, chat, sweep, adm, bridge>>

\* Mutant: the client is closed when the request ends, not on a continue.
ImgFinallyCloseOnExit ==
    /\ img.pc = "finally"
    /\ LET closing == img.client # "none"
           closed == [img EXCEPT
                        !.nClose = IF closing THEN @ + 1 ELSE @,
                        !.open = IF img.client \in {"created", "running"}
                                 THEN @ - 1 ELSE @,
                        !.client = IF closing THEN "closed" ELSE @,
                        !.pending = Nothing]
       IN  IF img.pending = Continue
           THEN img' = [img EXCEPT !.pc = "loop", !.attempt = @ + 1,
                                   !.pending = Nothing]
           ELSE img' = [closed EXCEPT !.pc = "done", !.result = img.pending]
    /\ UNCHANGED <<amVars, chat, sweep, adm, bridge>>

\* finally: if client: await client.close(); then the pending continue,
\* return or raise takes effect.
ImgFinally ==
    /\ img.pc = "finally"
    /\ LET closing == img.client # "none"
           closed == [img EXCEPT
                        !.nClose = IF closing THEN @ + 1 ELSE @,
                        !.open = IF img.client \in {"created", "running"}
                                 THEN @ - 1 ELSE @,
                        !.client = IF closing THEN "closed" ELSE @,
                        !.pending = Nothing]
       IN  IF img.pending = Continue
           THEN img' = [closed EXCEPT !.pc = "loop", !.attempt = @ + 1]
           ELSE img' = [closed EXCEPT !.pc = "done", !.result = img.pending]
    /\ UNCHANGED <<amVars, chat, sweep, adm, bridge>>

\* ------------------------------------------------------------ chat request

\* chunk_size of stream_generator.
ChunkSize == 10

\* Largest number of image_url parts in the messages of one request.
MaxParts == 2

\* The image_url parts of the messages: a data: URL, an http URL, or a URL
\* that is neither and yields no file.
PartKinds == {"data", "http", "other"}

PartLists == UNION {[1 .. n -> PartKinds] : n \in 0 .. MaxParts}

\* What materializing one part may come to: the file written and its path
\* returned, an exception before the file is opened (b64decode, requests.get,
\* a status other than 200), or an exception while the file is written.
MaterializeOutcomes == {"written", "raised_before_open", "raised_in_write"}

\* Texts of the upstream's answer, of lengths 0, 2, 10, 11 and 21.
ChatTexts ==
    {<< >>,
     <<"O", "K">>,
     <<"0", "1", "2", "3", "4", "5", "6", "7", "8", "9">>,
     <<"0", "1", "2", "3", "4", "5", "6", "7", "8", "9", "a">>,
     <<"0", "1", "2", "3", "4", "5", "6", "7", "8", "9",
       "a", "b", "c", "d", "e", "f", "g", "h", "i", "j", "k">>}

\* str(e) of an exception of the request.
ChatErrorDetail == <<"str(e)">>

\* The paths in a list of files.
FileSet(fs) == {fs[k] : k \in DOMAIN fs}

\* Mutant: the loop removes nothing.
RemoveFilesSkipped(disk, temp_files) == disk

\* for f in temp_files: if os.path.exists(f): os.remove(f)
RemoveFiles(disk, temp_files) == disk \ FileSet(temp_files)

\* Mutant: text[i:i+chunk_size-1].
ChunkAtShort(text, i) ==
    SubSeq(text, i + 1,
           IF i + ChunkSize - 1 < Len(text) THEN i + ChunkSize - 1 ELSE Len(text))

\* text[i:i+chunk_size]
ChunkAt(text, i) ==
    SubSeq(text, i + 1,
           IF i + ChunkSize < Len(text) THEN i + ChunkSize ELSE Len(text))

\* The event of format_stream_chunk: the delta is {"content": content} when
\* content is not empty and {} when it is, here a tuple of one or no content.
FormatStreamChunk(content, finish_reason) ==
    [object |-> "chat.completion.chunk",
     delta |-> IF content # << >> THEN <<content>> ELSE << >>,
     finish_reason |-> finish_reason]

\* yield "[DONE]"
DoneSentinel == [object |-> "[DONE]", delta |-> << >>, finish_reason |-> "None"]

\* return format_response(response, request.model)
ChatSuccess(text) ==
    [kind |-> "return", status |-> 200, content |-> text, detail |-> << >>]

\* return EventSourceResponse(cleanup_generator())
ChatStreaming ==
    [kind |-> "stream", status |-> 200, content |-> << >>, detail |-> << >>]

ChatError(status, detail) ==
    [kind |-> "raise", status |-> status, content |-> << >>, detail |-> detail]

ChatNothing ==
    [kind |-> "none", status |-> 0, content |-> << >>, detail |-> << >>]

ChatStart(stream, parts) ==
    [pc |-> "select", stream |-> stream, parts |-> parts, part |-> 1,
     files |-> << >>, temp_files |-> << >>, disk |-> {},
     client |-> "none", open |-> 0, exchanged |-> "no", text |-> << >>,
     i |-> 0, events |-> << >>, connected |-> TRUE, started |-> FALSE,
     nSend |-> 0, init |-> "none",
     failed_part |-> 0, result |-> ChatNothing]

\* No chat request: the value of chat in the other specifications.
ChatOff == [ChatStart(FALSE, << >>) EXCEPT !.pc = "off"]

\* get_gemini_client: manager.get_next_account(), its GET.
ChatFetch ==
    /\ chat.pc = "select"
    /\ Fetch(ImgCaller)
    /\ chat' = [chat EXCEPT !.pc = "selecting"]
    /\ UNCHANGED <<img, sweep, adm, bridge>>

\* get_gemini_client: manager.get_next_account(), its PATCH.
ChatUpdate ==
    /\ chat.pc = "selecting"
    /\ Update(ImgCaller)
    /\ UNCHANGED <<img, chat, sweep, adm, bridge>>

\* get_gemini_client after get_next_account, outside the handler's try: the
\* 503 leaves the handler, or the GeminiClient is built.
ChatClient ==
    /\ chat.pc = "selecting"
    /\ \/ /\ pc[ImgCaller] = "raised"
          /\ chat' = [chat EXCEPT !.pc = "done",
                         !.result = ChatError(503,
                                      NoAccountsDetail(ret[ImgCaller].error))]
       \/ /\ pc[ImgCaller] = "returned"
          /\ chat' = [chat EXCEPT !.pc = "init", !.client = "created",
                                  !.open = @ + 1]
    /\ UNCHANGED <<amVars, img, sweep, adm, bridge>>

\* init_client, outside the handler's try: client.init(); on an exception
\* client.close() and a 500 that leaves the handler.
ChatInit ==
    /\ chat.pc = "init"
    /\ \E ok \in BOOLEAN :
         IF ok
         THEN chat' = [chat EXCEPT !.pc = "extract", !.client = "running",
                                   !.init = "ok"]
         ELSE chat' = [chat EXCEPT !.pc = "done", !.client = "closed",
                                   !.open = @ - 1, !.init = "failed",
                                   !.result = ChatError(500, InitFailedDetail)]
    /\ UNCHANGED <<amVars, img, sweep, adm, bridge>>

\* extract_content_and_files, one image_url part at a time: the file of part
\* k is written and appended to the local list files; an exception leaves
\* the function before it returns, and temp_files keeps its value [].  After
\* the last part the function returns and temp_files is assigned.
ChatExtract ==
    /\ chat.pc = "extract"
    /\ IF chat.part > Len(chat.parts)
       THEN chat' = [chat EXCEPT !.pc = "exchange", !.temp_files = chat.files]
       ELSE IF chat.parts[chat.part] = "other"
       THEN chat' = [chat EXCEPT !.part = @ + 1]
       ELSE \E m \in MaterializeOutcomes :
              CASE m = "written" ->
                     chat' = [chat EXCEPT !.part = @ + 1,
                                 !.disk = @ \cup {chat.part},
                                 !.files = Append(@, chat.part)]
                [] m = "raised_before_open" ->
                     chat' = [chat EXCEPT !.pc = "except",
                                 !.failed_part = chat.part]
                [] m = "raised_in_write" ->
                     chat' = [chat EXCEPT !.pc = "except",
                                 !.disk = @ \cup {chat.part},
                                 !.failed_part = chat.part]
    /\ UNCHANGED <<amVars, img, sweep, adm, bridge>>

\* if request.stream: the handler returns the EventSourceResponse over a
\* generator that has not started.  else: chat.send_message, the removal of
\* the temporary files and the return of the formatted response; an
\* exception of send_message goes to the except clause.
ChatExchange ==
    /\ chat.pc = "exchange"
    /\ IF chat.stream
       THEN chat' = [chat EXCEPT !.pc = "ready", !.result = ChatStreaming]
       ELSE \/ \E t \in ChatTexts :
                 chat' = [chat EXCEPT !.pc = "done", !.exchanged = "ok",
                             !.text = t, !.nSend = @ + 1,
                             !.disk = RemoveFiles(@, chat.temp_files),
                             !.result = ChatSuccess(t)]
            \/ chat' = [chat EXCEPT !.pc = "except", !.exchanged = "failed",
                                    !.nSend = @ + 1]
    /\ UNCHANGED <<amVars, img, sweep, adm, bridge>>

\* except Exception: the removal of temp_files, client.close() and the 500.
ChatExcept ==
    /\ chat.pc = "except"
    /\ chat' = [chat EXCEPT !.pc = "done",
                   !.disk = RemoveFiles(@, chat.temp_files),
                   !.client = "closed", !.open = @ - 1,
                   !.result = ChatError(500, ChatErrorDetail)]
    /\ UNCHANGED <<amVars, img, sweep, adm, bridge>>

\* Mutant: an opening event is sent before the exchange.
StreamStartAnnounces ==
    /\ chat.pc = "ready"
    /\ chat.connected
    /\ chat' = [chat EXCEPT !.pc = "send", !.started = TRUE,
                   !.events = Append(@, FormatStreamChunk(<< >>, "None"))]
    /\ UNCHANGED <<amVars, img, sweep, adm, bridge>>

\* The first pull of the response: cleanup_generator starts and creates and
\* pulls stream_generator, which runs up to its await of chat.send_message.
StreamStart ==
    /\ chat.pc = "ready"
    /\ chat.connected
    /\ chat' = [chat EXCEPT !.pc = "send", !.started = TRUE]
    /\ UNCHANGED <<amVars, img, sweep, adm, bridge>>

\* response = await chat.send_message(message, files=files or []): the text
\* to chunk, or an exception that leaves through the finally.
StreamExchange ==
    /\ chat.pc = "send"
    /\ \/ \E t \in ChatTexts :
            chat' = [chat EXCEPT !.pc = "chunk", !.exchanged = "ok",
                                 !.text = t, !.i = 0, !.nSend = @ + 1]
       \/ chat' = [chat EXCEPT !.pc = "finally", !.exchanged = "failed",
                               !.nSend = @ + 1]
    /\ UNCHANGED <<amVars, img, sweep, adm, bridge>>

\* for i in range(0, len(text), chunk_size): yield the chunk at i; after
\* the last chunk, yield the chunk with finish_reason "stop".
StreamChunk ==
    /\ chat.pc = "chunk"
    /\ IF chat.i < Len(chat.text)
       THEN chat' = [chat EXCEPT !.pc = "pace",
                        !.events = Append(@,
                           FormatStreamChunk(ChunkAt(chat.text, chat.i), "None"))]
       ELSE chat' = [chat EXCEPT !.pc = "stop"]
    /\ UNCHANGED <<amVars, img, sweep, adm, bridge>>

\* await asyncio.sleep(0.01), then the next i of the range.
StreamPace ==
    /\ chat.pc = "pace"
    /\ chat' = [chat EXCEPT !.pc = "chunk", !.i = @ + ChunkSize]
    /\ UNCHANGED <<amVars, img, sweep, adm, bridge>>

\* Mutant: no chunk with the finish reason.
StreamStopOmitted ==
    /\ chat.pc = "stop"
    /\ chat' = [chat EXCEPT !.pc = "sentinel"]
    /\ UNCHANGED <<amVars, img, sweep, adm, bridge>>

\* yield format_stream_chunk(request_id, created, model, "",
\* finish_reason="stop")
StreamStop ==
    /\ chat.pc = "stop"
    /\ chat' = [chat EXCEPT !.pc = "sentinel",
                   !.events = Append(@, FormatStreamChunk(<< >>, "stop"))]
    /\ UNCHANGED <<amVars, img, sweep, adm, bridge>>

\* yield "[DONE]"
StreamSentinel ==
    /\ chat.pc = "sentinel"
    /\ chat' = [chat EXCEPT !.pc = "finally", !.events = Append(@, DoneSentinel)]
    /\ UNCHANGED <<amVars, img, sweep, adm, bridge>>

\* The finally of stream_generator: await client.close().
StreamFinally ==
    /\ chat.pc = "finally"
    /\ chat' = [chat EXCEPT !.pc = "cleanup", !.client = "closed",
                            !.open = @ - 1]
    /\ UNCHANGED <<amVars, img, sweep, adm, bridge>>

\* The finally of cleanup_generator: the removal of temp_files.
StreamCleanup ==
    /\ chat.pc = "cleanup"
    /\ chat' = [chat EXCEPT !.pc = "done",
                            !.disk = RemoveFiles(@, chat.temp_files)]
    /\ UNCHANGED <<amVars, img, sweep, adm, bridge>>

\* The caller disconnects while the response is open.  A generator that has
\* started is suspended at an await or a yield and is cancelled there, which
\* runs its finally clauses; one that was never pulled has no frame to
\* unwind, and is dropped as it is.
StreamDisconnect ==
    /\ chat.connected
    /\ chat.pc \in {"ready", "send", "chunk", "pace", "stop", "sentinel"}
    /\ chat' = [chat EXCEPT !.connected = FALSE,
                   !.pc = IF chat.pc = "ready" THEN "done" ELSE "finally"]
    /\ UNCHANGED <<amVars, img, sweep, adm, bridge>>

\* --------------------------------------------------------- the asset sweep

\* Check every 1 hour.
CLEANUP_INTERVAL == 3600

\* The default of the environment variable IMAGE_EXPIRY_HOURS.
IMAGE_EXPIRY_HOURS == 24

FILE_EXPIRY_SECONDS == IMAGE_EXPIRY_HOURS * 3600

\* Largest number of entries of static/images.
MaxFiles == 2

\* Largest number of passes of the task.
MaxPasses == 2

FileNames == 1 .. MaxFiles

\* time.time() at the first pass.
FirstNow == 30 * 3600

\* Ages, at the first pass, of the entries: 25 h, 24 h and a second, 24 h,
\* 23 h and a second, 1 h.
InitAges == {25 * 3600, 24 * 3600 + 1, 24 * 3600, 23 * 3600 + 1, 3600}

\* An entry of the directory: a regular file or a subdirectory, its
\* modification time and, for a subdirectory, the number of files inside it,
\* which are as old as it is.
InitEntries ==
    {[kind |-> "file", mtime |-> FirstNow - a, inside |-> 0] : a \in InitAges}
    \cup {[kind |-> "dir", mtime |-> FirstNow - 25 * 3600, inside |-> n] :
             n \in {0, 1}}

InitDirs ==
    UNION {[S -> InitEntries] : S \in SUBSET FileNames}

\* os.listdir(directory): the names, in an arbitrary order.
Listings(dir) ==
    {l \in [1 .. Cardinality(DOMAIN dir) -> DOMAIN dir] :
        \A i, j \in DOMAIN l : l[i] = l[j] => i = j}

\* Mutant: every entry that exists counts as a file.
IsFileAnyEntry(dir, f) == f \in DOMAIN dir

\* os.path.isfile(os.path.join(directory, filename))
IsFile(dir, f) == f \in DOMAIN dir /\ dir[f].kind = "file"

\* The directory without the entry f.
Without(dir, f) == [g \in DOMAIN dir \ {f} |-> dir[g]]

\* (now - os.path.getmtime(file_path)) > FILE_EXPIRY_SECONDS
IsExpired(now, mtime) == (now - mtime) > FILE_EXPIRY_SECONDS

SweepStart(dir) ==
    [pc |-> "start", pass |-> 1, now |-> FirstNow, dir |-> dir, dir0 |-> dir,
     listing |-> << >>, k |-> 1, count |-> 0, removed |-> {}, failed |-> {},
     vanished |-> {}, aborted |-> FALSE]

\* No sweep: the value of sweep in the other specifications.
SweepOff == [SweepStart(<< >>) EXCEPT !.pc = "off"]

\* The head of a pass: now = time.time(), the directory exists, and
\* os.listdir gives the names the for loop will go through.
SweepList ==
    /\ sweep.pc = "start"
    /\ \E l \in Listings(sweep.dir) :
         sweep' = [sweep EXCEPT !.pc = "isfile", !.listing = l, !.k = 1,
                                !.count = 0, !.dir0 = sweep.dir,
                                !.removed = {}, !.failed = {},
                                !.vanished = {}, !.aborted = FALSE]
    /\ UNCHANGED <<amVars, img, chat, adm, bridge>>

\* for filename in os.listdir(directory): if os.path.isfile(file_path).
\* A name that is no longer there, or a subdirectory, is passed over; after
\* the last name the pass is over.
SweepIsFile ==
    /\ sweep.pc = "isfile"
    /\ IF sweep.k > Len(sweep.listing)
       THEN sweep' = [sweep EXCEPT !.pc = "sleep"]
       ELSE LET f == sweep.listing[sweep.k]
            IN  IF IsFile(sweep.dir, f)
                THEN sweep' = [sweep EXCEPT !.pc = "getmtime"]
                ELSE sweep' = [sweep EXCEPT !.k = @ + 1]
    /\ UNCHANGED <<amVars, img, chat, adm, bridge>>

\* Mutant: the exception of getmtime leaves the while loop, and the task ends.
SweepGetMtimeEscapes ==
    /\ sweep.pc = "getmtime"
    /\ LET f == sweep.listing[sweep.k]
       IN  IF f \notin DOMAIN sweep.dir
           THEN sweep' = [sweep EXCEPT !.pc = "ended", !.aborted = TRUE]
           ELSE IF IsExpired(sweep.now, sweep.dir[f].mtime)
           THEN sweep' = [sweep EXCEPT !.pc = "remove"]
           ELSE sweep' = [sweep EXCEPT !.pc = "isfile", !.k = @ + 1]
    /\ UNCHANGED <<amVars, img, chat, adm, bridge>>

\* os.path.getmtime(file_path) and the comparison.  getmtime of a file that
\* is gone raises inside the outer try only: the except clause of the task
\* logs it and the pass is over.
SweepGetMtime ==
    /\ sweep.pc = "getmtime"
    /\ LET f == sweep.listing[sweep.k]
       IN  IF f \notin DOMAIN sweep.dir
           THEN sweep' = [sweep EXCEPT !.pc = "sleep", !.aborted = TRUE]
           ELSE IF IsExpired(sweep.now, sweep.dir[f].mtime)
           THEN sweep' = [sweep EXCEPT !.pc = "remove"]
           ELSE sweep' = [sweep EXCEPT !.pc = "isfile", !.k = @ + 1]
    /\ UNCHANGED <<amVars, img, chat, adm, bridge>>

\* try: os.remove(file_path); count += 1; except Exception: the failure is
\* logged and the loop goes on.
SweepRemove ==
    /\ sweep.pc = "remove"
    /\ LET f == sweep.listing[sweep.k]
       IN  \E deleted \in BOOLEAN :
             IF deleted /\ f \in DOMAIN sweep.dir
             THEN sweep' = [sweep EXCEPT !.pc = "isfile", !.k = @ + 1,
                               !.dir = Without(@, f), !.count = @ + 1,
                               !.removed = @ \cup {f}]
             ELSE sweep' = [sweep EXCEPT !.pc = "isfile", !.k = @ + 1,
                               !.failed = @ \cup {f}]
    /\ UNCHANGED <<amVars, img, chat, adm, bridge>>

\* await asyncio.sleep(CLEANUP_INTERVAL), then the next pass of while True.
SweepSleep ==
    /\ sweep.pc = "sleep"
    /\ sweep.pass < MaxPasses
    /\ sweep' = [sweep EXCEPT !.pc = "start", !.pass = @ + 1,
                              !.now = @ + CLEANUP_INTERVAL]
    /\ UNCHANGED <<amVars, img, chat, adm, bridge>>

\* The sleep after the pass numbered MaxPasses and after every later pass:
\* the task goes on as before, and the passes from there on are taken at the
\* time of that pass, by which a file that was expired is still expired.
SweepSleepAgain ==
    /\ sweep.pc = "sleep"
    /\ sweep.pass = MaxPasses
    /\ sweep' = [sweep EXCEPT !.pc = "start"]
    /\ UNCHANGED <<amVars, img, chat, adm, bridge>>

\* A listed regular file is removed by something other than the task while
\* the pass is between two of its calls on the directory.
SweepVanish ==
    /\ sweep.pc \in {"isfile", "getmtime", "remove"}
    /\ \E f \in DOMAIN sweep.dir :
         /\ sweep.dir[f].kind = "file"
         /\ sweep' = [sweep EXCEPT !.dir = Without(@, f),
                                   !.vanished = @ \cup {f}]
    /\ UNCHANGED <<amVars, img, chat, adm, bridge>>

\* ------------------------------------------- get_account and reset_counts

\* Largest number of get_account and reset_counts calls.
MaxOps == 2

\* Aliases of the tables these calls run on; ingestion accepts any non-empty
\* alias.
AdmAliases == {"a", "b", "PLACEHOLDER"}

\* Tables over a subset of AdmAliases, both tokens present.
AdmStores ==
    UNION { { s \in [S -> UNION {InitRows(a) : a \in AdmAliases}] :
                \A a \in S : /\ s[a] \in InitRows(a)
                             /\ s[a].psid # ""
                             /\ s[a].psidts # "" } : S \in SUBSET AdmAliases }

\* f"Account '{alias}' not found"
AccountNotFound(alias) == Raised(<<"Account '", alias, "' not found">>)

\* Mutant: the lookup sees enabled rows only.
LookupRowsEnabledOnly(s, alias) ==
    IF alias \in DOMAIN s /\ s[alias].enabled THEN <<AccountOf(s, alias)>>
    ELSE << >>

\* GET ?alias=eq.{alias}: the body resp.json() of a 200 answer.
LookupRows(s, alias) ==
    IF alias \in DOMAIN s THEN <<AccountOf(s, alias)>> ELSE << >>

\* PATCH ?alias=neq.PLACEHOLDER with {"call_count": 0}.
PatchReset(s) ==
    [a \in DOMAIN s |->
        IF a # "PLACEHOLDER" THEN [s[a] EXCEPT !.call_count = 0] ELSE s[a]]

AdmStart ==
    [pc |-> "idle", op |-> "none", alias |-> "none", outcome |-> "none",
     result |-> NoReturn, before |-> << >>, ops |-> 0]

\* Neither call: the value of adm in the other specifications.
AdmOff == [AdmStart EXCEPT !.pc = "off"]

\* get_account(alias): the GET, whose status is not looked at, and then the
\* row, or the exception for an empty body.  The body of an answer that is
\* not a 200 is not a list of rows, and data[0] raises on it.
GetAccount ==
    /\ adm.pc \in {"idle", "done"}
    /\ adm.ops < MaxOps
    /\ \E alias \in AdmAliases, o \in GetOutcomes :
         LET data == LookupRows(store, alias)
         IN  adm' = [adm EXCEPT
                       !.pc = "done", !.op = "get_account", !.alias = alias,
                       !.outcome = o, !.before = store, !.ops = @ + 1,
                       !.result =
                          IF o = "200"
                          THEN IF data = << >> THEN AccountNotFound(alias)
                               ELSE Returned(data[1])
                          ELSE Raised(<<o>>)]
    /\ UNCHANGED <<amVars, img, chat, sweep, bridge>>

\* reset_counts(): the PATCH, whose answer is not looked at.
ResetCounts ==
    /\ adm.pc \in {"idle", "done"}
    /\ adm.ops < MaxOps
    /\ \E o \in PatchOutcomes :
         /\ adm' = [adm EXCEPT
                      !.pc = "done", !.op = "reset_counts", !.alias = "none",
                      !.outcome = o, !.before = store, !.ops = @ + 1,
                      !.result = IF o = "exception" THEN Raised(<<o>>)
                                 ELSE Returned(NoAccount)]
         /\ store' = IF o = "ok" THEN PatchReset(store) ELSE store
    /\ UNCHANGED <<clock, calls, pc, got, acct, upd, ret, pre, store0, raced>>
    /\ UNCHANGED <<img, chat, sweep, bridge>>

\* ------------------------------------------------------- cookie_bridge

\* A payload value that Python takes as true: not None and not empty.
Truthy(v) == v \notin {NULL, ""}

\* x or y
Or(x, y) == IF Truthy(x) THEN x ELSE y

\* The bodies POSTed to /api/cookies: each token under its cookie name, under
\* its lower-case name, or missing; an alias that may be stored already, a
\* new one, or none; proxy missing, empty or given; headers missing or given.
TokenForms(v) == {<<NULL, NULL>>, <<v, NULL>>, <<NULL, v>>}

Payloads ==
    {[dunder_psid |-> t[1], secure_1psid |-> t[2],
      dunder_psidts |-> u[1], secure_1psidts |-> u[2],
      alias |-> a, proxy |-> x, headers |-> h] :
        t \in TokenForms("sid2"), u \in TokenForms("ts2"),
        a \in {NULL, "a", "c"}, x \in {NULL, "", "http://proxy2"},
        h \in {NULL, "ua2"}}

NoPayload ==
    [dunder_psid |-> NULL, secure_1psid |-> NULL, dunder_psidts |-> NULL,
     secure_1psidts |-> NULL, alias |-> NULL, proxy |-> NULL, headers |-> NULL]

\* raise HTTPException(status_code=status, ...)
BridgeError(status) ==
    [kind |-> "raise", status |-> status, action |-> "none", alias |-> NULL,
     has_headers |-> FALSE]

\* return {"status": "success", "action": action, "account": {...}}
BridgeReturn(action, alias, headers) ==
    [kind |-> "return", status |-> 200, action |-> action, alias |-> alias,
     has_headers |-> Truthy(headers)]

BridgeNothing == BridgeError(0)

\* The handler of POST /api/cookies before it runs; configured is the value
\* of is_configured().
BridgeStart(configured) ==
    [pc |-> "idle", configured |-> configured, payload |-> NoPayload,
     psid |-> NULL, psidts |-> NULL, alias |-> NULL, proxy |-> NULL,
     headers |-> NULL, timestamp |-> 0, existing |-> FALSE,
     get |-> "none", write |-> "none", result |-> BridgeNothing,
     nGet |-> 0, nWrite |-> 0]

\* No ingestion: the value of bridge in the other specifications.
BridgeOff == [BridgeStart(TRUE) EXCEPT !.pc = "off"]

\* The handler up to its first store request: the configuration check, the
\* fields of the payload, and the 400 when a required one is missing.
BridgeReceive ==
    /\ bridge.pc = "idle"
    /\ \E payload \in Payloads :
         LET psid == Or(payload.dunder_psid, payload.secure_1psid)
             psidts == Or(payload.dunder_psidts, payload.secure_1psidts)
             taken == [bridge EXCEPT
                         !.payload = payload, !.psid = psid,
                         !.psidts = psidts, !.alias = payload.alias,
                         !.proxy = payload.proxy, !.headers = payload.headers,
                         !.timestamp = clock + 1]
         IN  IF ~bridge.configured
             THEN bridge' = [bridge EXCEPT !.pc = "done", !.payload = payload,
                                           !.result = BridgeError(500)]
             ELSE IF ~(Truthy(psid) /\ Truthy(psidts) /\ Truthy(payload.alias))
             THEN bridge' = [taken EXCEPT !.pc = "done",
                                          !.result = BridgeError(400)]
             ELSE bridge' = [taken EXCEPT !.pc = "query"]
    /\ UNCHANGED <<amVars, img, chat, sweep, adm>>

\* requests.get(..., params={"alias": f"eq.{alias}"}); existing is the body
\* of a 200 and the empty list for any other status.
BridgeQuery ==
    /\ bridge.pc = "query"
    /\ \E o \in GetOutcomes :
         bridge' =
           IF o = "exception"
           THEN [bridge EXCEPT !.pc = "done", !.get = o, !.nGet = @ + 1,
                               !.result = BridgeError(500)]
           ELSE LET existing == o = "200" /\ bridge.alias \in DOMAIN store
                IN  [bridge EXCEPT !.pc = IF existing THEN "patch" ELSE "post",
                                   !.get = o, !.nGet = @ + 1,
                                   !.existing = existing]
    /\ UNCHANGED <<amVars, img, chat, sweep, adm>>

\* Mutant: the update also resets the usage columns.
PatchCredentialsAndUsage(s, b) ==
    [a \in DOMAIN s |->
        IF a = b.alias
        THEN [s[a] EXCEPT !.psid = b.psid, !.psidts = b.psidts,
                          !.last_updated = b.timestamp,
                          !.enabled = TRUE, !.call_count = 0]
        ELSE s[a]]

\* PATCH ?alias=eq.{alias} with update_payload: alias, psid, psidts and
\* last_updated; proxy when the payload has one, the empty one as null;
\* headers when the payload has some.
PatchCredentials(s, b) ==
    [a \in DOMAIN s |->
        IF a = b.alias
        THEN [s[a] EXCEPT
                !.psid = b.psid, !.psidts = b.psidts,
                !.last_updated = b.timestamp,
                !.proxy = IF b.proxy # NULL
                          THEN (IF Truthy(b.proxy) THEN b.proxy ELSE NULL)
                          ELSE @,
                !.headers = IF Truthy(b.headers) THEN b.headers ELSE @]
        ELSE s[a]]

\* The row of the create branch: data with proxy, headers, enabled = True and
\* call_count = 0; the other columns at their defaults.
NewRow(b) ==
    [enabled |-> TRUE, call_count |-> 0, psid |-> b.psid, psidts |-> b.psidts,
     proxy |-> b.proxy, headers |-> b.headers, last_used |-> 0,
     last_updated |-> b.timestamp]

\* Mutant: the POST carries Prefer: resolution=merge-duplicates, and a row
\* with the alias is overwritten.
PostUpsert(s, b) ==
    [a \in DOMAIN s \cup {b.alias} |-> IF a = b.alias THEN NewRow(b) ELSE s[a]]

\* POST /gemini_accounts with headers=HEADERS, a plain insert: the row is
\* added unless the alias, the primary key, is taken.
PostInsert(s, b) ==
    IF b.alias \in DOMAIN s THEN s
    ELSE [a \in DOMAIN s \cup {b.alias} |->
             IF a = b.alias THEN NewRow(b) ELSE s[a]]

\* The update branch: requests.patch, whose answer is not looked at.  An
\* exception of the call raises the 500, with the request applied or not.
BridgePatch ==
    /\ bridge.pc = "patch"
    /\ \E o \in PatchOutcomes, applied \in BOOLEAN :
         /\ o = "ok" => applied
         /\ o = "rejected" => ~applied
         /\ store' = IF applied THEN PatchCredentials(store, bridge) ELSE store
         /\ bridge' = [bridge EXCEPT
                         !.pc = "done", !.write = o, !.nWrite = @ + 1,
                         !.result = IF o = "exception" THEN BridgeError(500)
                                    ELSE BridgeReturn("updated", bridge.alias,
                                                      bridge.headers)]
    /\ UNCHANGED <<clock, calls, pc, got, acct, upd, ret, pre, store0, raced>>
    /\ UNCHANGED <<img, chat, sweep, adm>>

\* The create branch: requests.post, whose answer is not looked at.
BridgePost ==
    /\ bridge.pc = "post"
    /\ \E o \in PatchOutcomes, applied \in BOOLEAN :
         /\ o = "ok" => applied
         /\ o = "rejected" => ~applied
         /\ store' = IF applied THEN PostInsert(store, bridge) ELSE store
         /\ bridge' = [bridge EXCEPT
                         !.pc = "done", !.write = o, !.nWrite = @ + 1,
                         !.result = IF o = "exception" THEN BridgeError(500)
                                    ELSE BridgeReturn("created", bridge.alias,
                                                      bridge.headers)]
    /\ UNCHANGED <<clock, calls, pc, got, acct, upd, ret, pre, store0, raced>>
    /\ UNCHANGED <<img, chat, sweep, adm>>

\* ------------------------------------------------------------ specifications

AmInit(stores) ==
    /\ store \in stores
    /\ clock = 0
    /\ calls = 0
    /\ pc = [p \in Callers |-> "idle"]
    /\ got = [p \in Callers |-> "none"]
    /\ acct = [p \in Callers |-> NoAccount]
    /\ upd = [p \in Callers |-> "none"]
    /\ ret = [p \in Callers |-> NoReturn]
    /\ pre = store
    /\ store0 = store
    /\ raced = [p \in Callers |-> FALSE]

Init ==
    /\ AmInit(InitStores)
    /\ img = ImgOff
    /\ chat = ChatOff
    /\ sweep = SweepOff
    /\ adm = AdmOff
    /\ bridge = BridgeOff

\* Sequential calls: one caller, each call finished before the next starts.
SeqFetch ==
    /\ calls < MaxCalls
    /\ Fetch(SeqCaller)
    /\ UNCHANGED <<img, chat, sweep, adm, bridge>>

SeqUpdate ==
    /\ Update(SeqCaller)
    /\ UNCHANGED <<img, chat, sweep, adm, bridge>>

Next ==
    \/ SeqFetch
    \/ SeqUpdate

Spec == Init /\ [][Next]_vars

\* Concurrent callers: the GET and the PATCH of different calls interleave.
RaceFetch(p) ==
    /\ calls < MaxCalls
    /\ Fetch(p)
    /\ UNCHANGED <<img, chat, sweep, adm, bridge>>

RaceUpdate(p) ==
    /\ Update(p)
    /\ UNCHANGED <<img, chat, sweep, adm, bridge>>

RaceNext ==
    \E p \in Callers :
        \/ RaceFetch(p)
        \/ RaceUpdate(p)

\* The races read enabled and call_count only: the tables of the concurrent
\* specification hold at most the rows a and b, with both tokens present.
RaceStores ==
    {s \in InitStores :
        /\ DOMAIN s \subseteq {"a", "b"}
        /\ \A a \in DOMAIN s : s[a].psid # "" /\ s[a].psidts # ""}

RaceInit ==
    /\ AmInit(RaceStores)
    /\ img = ImgOff
    /\ chat = ChatOff
    /\ sweep = SweepOff
    /\ adm = AdmOff
    /\ bridge = BridgeOff

SpecRace == RaceInit /\ [][RaceNext]_vars

\* One inbound image request, from its arrival to its result, on a table of
\* at most the rows a and b with call_count 0 or 2.
ImageStores ==
    {s \in RaceStores : \A a \in DOMAIN s : s[a].call_count <= 2}

ImageInit ==
    /\ AmInit(ImageStores)
    /\ \E e \in Endpoints : img = ImgStart(e)
    /\ chat = ChatOff
    /\ sweep = SweepOff
    /\ adm = AdmOff
    /\ bridge = BridgeOff

ImageNext ==
    \/ ImgReceive
    \/ ImgLoop
    \/ ImgFetch
    \/ ImgUpdate
    \/ ImgClient
    \/ ImgInit
    \/ ImgExchange
    \/ ImgSleep
    \/ ImgFinally

SpecImage == ImageInit /\ [][ImageNext]_vars

\* One image request in which every awaited call returns: the store calls,
\* client.init(), the upstream exchange, asyncio.sleep and client.close() are
\* each one step of the handler's coroutine, which the event loop resumes
\* when the call has returned.
\* The tables hold the row a, enabled or not, and not used yet.
ImageFairStores ==
    {s \in ImageStores :
        /\ DOMAIN s = {"a"}
        /\ \A a \in DOMAIN s : s[a].call_count = 0}

ImageFairInit ==
    /\ AmInit(ImageFairStores)
    /\ \E e \in Endpoints : img = ImgStart(e)
    /\ chat = ChatOff
    /\ sweep = SweepOff
    /\ adm = AdmOff
    /\ bridge = BridgeOff

SpecImageFair == ImageFairInit /\ [][ImageNext]_vars /\ WF_vars(ImageNext)

\* One chat request, non-streaming or streaming, with up to MaxParts
\* image_url parts.
ChatInitial ==
    /\ AmInit(ImageStores)
    /\ img = ImgOff
    /\ sweep = SweepOff
    /\ adm = AdmOff
    /\ bridge = BridgeOff
    /\ \E stream \in BOOLEAN, parts \in PartLists :
         chat = ChatStart(stream, parts)

ChatNext ==
    \/ ChatFetch
    \/ ChatUpdate
    \/ ChatClient
    \/ ChatInit
    \/ ChatExtract
    \/ ChatExchange
    \/ ChatExcept
    \/ StreamStart
    \/ StreamExchange
    \/ StreamChunk
    \/ StreamPace
    \/ StreamStop
    \/ StreamSentinel
    \/ StreamFinally
    \/ StreamCleanup
    \/ StreamDisconnect

SpecChat == ChatInitial /\ [][ChatNext]_vars

\* The background task over a directory of up to MaxFiles entries.
SweepInit ==
    /\ AmInit({<< >>})
    /\ img = ImgOff
    /\ chat = ChatOff
    /\ adm = AdmOff
    /\ bridge = BridgeOff
    /\ \E dir \in InitDirs : sweep = SweepStart(dir)

SweepNext ==
    \/ SweepList
    \/ SweepIsFile
    \/ SweepGetMtime
    \/ SweepRemove
    \/ SweepSleep
    \/ SweepVanish

SpecSweep == SweepInit /\ [][SweepNext]_vars

\* The steps of the task itself, without end: every call it awaits or makes
\* returns or raises.
SweepTask ==
    \/ SweepList
    \/ SweepIsFile
    \/ SweepGetMtime
    \/ SweepRemove
    \/ SweepSleep
    \/ SweepSleepAgain

SweepFairNext ==
    \/ SweepTask
    \/ SweepVanish

\* The directories of the unending task hold files that are older than the
\* window at the first pass or become so by the second, and subdirectories
\* with a file inside.
SweepFairDirs ==
    {dir \in InitDirs :
        \A f \in DOMAIN dir :
            IF dir[f].kind = "file"
            THEN FirstNow - dir[f].mtime \in {25 * 3600, 23 * 3600 + 1}
            ELSE dir[f].inside = 1}

SweepFairInit ==
    /\ AmInit({<< >>})
    /\ img = ImgOff
    /\ chat = ChatOff
    /\ adm = AdmOff
    /\ bridge = BridgeOff
    /\ \E dir \in SweepFairDirs : sweep = SweepStart(dir)

SpecSweepFair ==
    SweepFairInit /\ [][SweepFairNext]_vars /\ WF_vars(SweepTask)

\* Calls of get_account and reset_counts, one after the other.
AdmInit ==
    /\ AmInit(AdmStores)
    /\ img = ImgOff
    /\ chat = ChatOff
    /\ sweep = SweepOff
    /\ adm = AdmStart
    /\ bridge = BridgeOff

AdmNext ==
    \/ GetAccount
    \/ ResetCounts

SpecAdm == AdmInit /\ [][AdmNext]_vars

\* One POST /api/cookies on a table that holds the alias a or not, with the
\* service configured or not.
BridgeInit ==
    /\ AmInit(RaceStores)
    /\ img = ImgOff
    /\ chat = ChatOff
    /\ sweep = SweepOff
    /\ adm = AdmOff
    /\ \E configured \in BOOLEAN : bridge = BridgeStart(configured)

BridgeNext ==
    \/ BridgeReceive
    \/ BridgeQuery
    \/ BridgePatch
    \/ BridgePost

SpecBridge == BridgeInit /\ [][BridgeNext]_vars

\* One inbound request, an image request or a chat request, on a table in
\* which an account may be disabled from outside while the request sleeps
\* between two attempts.
RequestInit ==
    /\ AmInit(ImageStores)
    /\ sweep = SweepOff
    /\ adm = AdmOff
    /\ bridge = BridgeOff
    /\ \/ /\ \E e \in Endpoints : img = ImgStart(e)
          /\ chat = ChatOff
       \/ /\ img = ImgOff
          /\ \E stream \in BOOLEAN, parts \in PartLists :
               chat = ChatStart(stream, parts)

\* enabled is written outside the core: a row the next query would have
\* returned is disabled before the query is made.
AccountDisabled ==
    /\ img.pc = "sleep"
    /\ \E a \in EnabledAliases(store) :
         store' = [store EXCEPT ![a].enabled = FALSE]
    /\ UNCHANGED <<clock, calls, pc, got, acct, upd, ret, pre, store0, raced>>
    /\ UNCHANGED <<img, chat, sweep, adm, bridge>>

RequestNext ==
    \/ AccountDisabled
    \/ ImgReceive
    \/ ImgLoop
    \/ ImgFetch
    \/ ImgUpdate
    \/ ImgClient
    \/ ImgInit
    \/ ImgExchange
    \/ ImgSleep
    \/ ImgFinally
    \/ ChatFetch
    \/ ChatUpdate
    \/ ChatClient
    \/ ChatInit
    \/ ChatExtract
    \/ ChatExchange
    \/ ChatExcept
    \/ StreamStart
    \/ StreamExchange
    \/ StreamChunk
    \/ StreamPace
    \/ StreamStop
    \/ StreamSentinel
    \/ StreamFinally
    \/ StreamCleanup
    \/ StreamDisconnect

SpecRequest == RequestInit /\ [][RequestNext]_vars

\* ------------------------------------------------------------------ claims

\* The call of the sequential caller has returned a snapshot.
SeqReturned == pc[SeqCaller] = "returned" /\ ret[SeqCaller].kind = "ok"

\* The call of the sequential caller has ended, by a return or a raise.
SeqEnded == pc[SeqCaller] \in {"returned", "raised"}

SeqAlias == ret[SeqCaller].account.alias

\* The enabled rows of a table, without the query's operators.
Usable(s) == {a \in DOMAIN s : s[a].enabled = TRUE}

RECURSIVE SumOver(_, _)
SumOver(f, S) ==
    IF S = {} THEN 0
    ELSE LET x == CHOOSE y \in S : TRUE IN f[x] + SumOver(f, S \ {x})

Counts(s) == [a \in Usable(s) |-> s[a].call_count]

MaxCount(s) == CHOOSE m \in {s[a].call_count : a \in Usable(s)} :
                   \A a \in Usable(s) : s[a].call_count <= m

MinCount(s) == CHOOSE m \in {s[a].call_count : a \in Usable(s)} :
                   \A a \in Usable(s) : m <= s[a].call_count

\* Largest minus smallest call_count over the enabled rows.
Spread(s) == IF Usable(s) = {} THEN 0 ELSE MaxCount(s) - MinCount(s)

\* C1: with sequential calls, the account get_next_account returns is an
\* enabled row of the table the call read, and no enabled row of that table
\* had a smaller call_count.
C1_ReturnsLeastUsed ==
    SeqReturned =>
        /\ SeqAlias \in Usable(pre)
        /\ \A b \in Usable(pre) :
              pre[SeqAlias].call_count <= pre[b].call_count

\* C1 witness: the pool a:5, b:2, both enabled, and the call returned b.
C1_Witness ==
    /\ SeqReturned
    /\ DOMAIN pre = {"a", "b"}
    /\ pre["a"].enabled /\ pre["a"].call_count = 5
    /\ pre["b"].enabled /\ pre["b"].call_count = 2
    /\ SeqAlias = "b"

\* C2: whatever calls came before, a returned account is a row whose enabled
\* flag is true, in the table the call read and in the table as it is now.
C2_NeverDisabled ==
    SeqReturned =>
        /\ SeqAlias \in DOMAIN pre /\ pre[SeqAlias].enabled = TRUE
        /\ SeqAlias \in DOMAIN store /\ store[SeqAlias].enabled = TRUE

\* C2 witness: a later call returned while the table held a disabled row
\* with a smaller call_count than the returned one.
C2_Witness ==
    /\ SeqReturned
    /\ calls >= 2
    /\ \E d \in DOMAIN pre :
          /\ ~pre[d].enabled
          /\ pre[d].call_count < pre[SeqAlias].call_count

\* C3 (as claimed): a returned account never has an empty psid or psidts.
C3_NeverEmptyToken ==
    SeqReturned =>
        /\ ret[SeqCaller].account.psid # ""
        /\ ret[SeqCaller].account.psidts # ""

\* C4: a call on a table with no enabled row (empty, or all rows disabled)
\* ends in a raise, never in a returned account, and leaves the table as it
\* was; when the store answered the query the error is NoAccountAvailable.
C4_NoAccountAvailable ==
    (Usable(pre) = {} /\ pc[SeqCaller] # "idle") =>
        /\ pc[SeqCaller] = "raised"
        /\ ret[SeqCaller].kind = "error"
        /\ got[SeqCaller] = "200" => ret[SeqCaller].error = "NoAccountAvailable"
        /\ store = pre

\* C4 witness: a table of disabled rows only, and the call raised
\* NoAccountAvailable.
C4_Witness ==
    /\ DOMAIN pre # {}
    /\ Usable(pre) = {}
    /\ pc[SeqCaller] = "raised"
    /\ ret[SeqCaller] = Raised("NoAccountAvailable")

\* C5: the returned call_count is the call_count the call read for the chosen
\* row plus 1, and when the PATCH succeeded the table holds that value for
\* that row.
C5_PostIncrementCount ==
    SeqReturned =>
        /\ acct[SeqCaller].alias = SeqAlias
        /\ acct[SeqCaller].call_count = pre[SeqAlias].call_count
        /\ ret[SeqCaller].account.call_count = pre[SeqAlias].call_count + 1
        /\ upd[SeqCaller] = "ok" =>
              store[SeqAlias].call_count = ret[SeqCaller].account.call_count

\* C5 witness: the pool a:5, b:2 yields call_count 3, stored for b.
C5_Witness ==
    /\ SeqReturned
    /\ upd[SeqCaller] = "ok"
    /\ DOMAIN pre = {"a", "b"}
    /\ pre["a"].enabled /\ pre["a"].call_count = 5
    /\ pre["b"].enabled /\ pre["b"].call_count = 2
    /\ ret[SeqCaller].account.call_count = 3
    /\ store["b"].call_count = 3

\* Increments the calls have applied to the enabled rows so far.
Applied == SumOver(Counts(store), Usable(store))
           - SumOver(Counts(store0), Usable(store0))

\* What the enabled rows lacked initially to be level with the largest.
Deficit ==
    IF Usable(store0) = {} THEN 0
    ELSE Cardinality(Usable(store0)) * MaxCount(store0)
         - SumOver(Counts(store0), Usable(store0))

\* C6 (as claimed): after any number N >= 1 of sequential calls on a static
\* pool (here: calls that returned and whose PATCH succeeded) the spread
\* over the enabled rows is at most 1.
C6_SpreadAtMostOne ==
    (calls >= 1 /\ SeqReturned /\ upd[SeqCaller] = "ok") => Spread(store) <= 1

\* C6 (amended): the spread never exceeds the larger of 1 and the initial
\* spread, and it is at most 1 once the calls have applied as many
\* increments as the enabled rows initially lacked to be level.
C6_SpreadBounded ==
    /\ Spread(store) <= (IF Spread(store0) > 1 THEN Spread(store0) ELSE 1)
    /\ Applied >= Deficit => Spread(store) <= 1

\* C6 witness: a pool that started with a spread of 2 or more has been
\* levelled, and a further call has been served.
C6_Witness ==
    /\ Spread(store0) >= 2
    /\ Applied > Deficit
    /\ SeqReturned
    /\ Spread(store) = 1

\* C7 (as claimed): no step of concurrent get_next_account calls lowers the
\* call_count of a row.
C7_CountNeverDecreases ==
    [][\A a \in DOMAIN store :
          store'[a].call_count >= store[a].call_count]_vars

\* C8 (as claimed): a call that read the row another call had read and not
\* yet written ends with a returned snapshot of a stored, enabled row.
C8_RacersComplete ==
    \A p \in Callers :
        (raced[p] /\ pc[p] \in {"returned", "raised"}) =>
            /\ pc[p] = "returned"
            /\ ret[p].kind = "ok"
            /\ ret[p].account.alias \in Usable(store)

\* C9 (as claimed): when the PATCH fails, by a status or by an exception of
\* the request, the call still returns the selected account.
C9_UpdateFailureStillReturns ==
    upd[SeqCaller] \in {"rejected", "exception"} =>
        /\ pc[SeqCaller] = "returned"
        /\ ret[SeqCaller].kind = "ok"
        /\ ret[SeqCaller].account.alias = acct[SeqCaller].alias

\* C10: an image request performs at most 3 upstream exchanges, and each
\* attempt calls get_next_account once, before its session is opened: the
\* calls made number the attempts begun, and no session is initialised or
\* used beyond them.
C10_AtMostThreeExchanges ==
    /\ img.nExchange <= 3
    /\ img.nSelect <= 3
    /\ calls = img.nSelect
    /\ img.pc \in {"selecting", "init", "exchange", "sleep", "finally"} =>
          img.nSelect = img.attempt
    /\ img.pc \in {"select", "loop"} => img.nSelect = img.attempt - 1
    /\ img.client \in {"created", "running"} =>
          /\ img.nSelect = img.attempt
          /\ pc[ImgCaller] = "returned"
    /\ img.nInit <= img.nSelect
    /\ img.nExchange <= img.nInit
    /\ img.nExchange <= img.attempt

\* C10 witness: a request that ended after three exchanges, each on an
\* account selected for it.
C10_Witness ==
    /\ img.pc = "done"
    /\ img.nExchange = 3
    /\ img.nSelect = 3

\* The error text of the latest exchange: response.text or "No image
\* generated", or str(e).
ImgErrorText ==
    IF img.outcome.kind = "no_images" /\ img.outcome.text = << >>
    THEN NoImageGenerated ELSE img.outcome.text

\* The latest exchange failed with a text that carries neither phrase.
ImgFailedOther ==
    /\ img.outcome.kind \in {"no_images", "exception", "save_exception"}
    /\ ImgErrorText \in {TextAskLater, TextQuota, NoImageGenerated}

\* The latest exchange failed with a text that carries one of the phrases.
ImgFailedOverload ==
    /\ img.outcome.kind \in {"no_images", "exception", "save_exception"}
    /\ ImgErrorText \in {TextAskAgain, TextMoreImages}

\* t occurs in d as a run of consecutive elements.
Embeds(d, t) ==
    \E i \in 1 .. Len(d) : \E j \in i .. Len(d) : SubSeq(d, i, j) = t

\* C11: after an exchange that failed with a non-overload text (an exception,
\* or a response without images) the request is on its way out with that
\* error: it is in the finally of that attempt or ended, with no sleep, no
\* account selection and no exchange beyond those of the attempts so far.
C11_OtherErrorsNotRetried ==
    ImgFailedOther =>
        /\ img.pc \in {"finally", "done"}
        /\ img.attempt \in 1 .. 3
        /\ img.nSleep = img.attempt - 1
        /\ img.nSelect = img.attempt
        /\ img.nExchange = img.attempt
        /\ LET e == IF img.pc = "done" THEN img.result ELSE img.pending
           IN  /\ e.kind = "raise"
               /\ e.status = (IF img.outcome.kind = "no_images" THEN 400 ELSE 500)
               /\ e.detail = ImgErrorText

\* C11 witness: the second attempt, with attempts remaining, raised
\* "Quota exceeded" and the request ended after one sleep.
C11_Witness ==
    /\ img.pc = "done"
    /\ img.outcome = [kind |-> "exception", n |-> 0, text |-> TextQuota]
    /\ img.attempt = 2
    /\ img.nSleep = 1

\* C12: when the loop ends after three overloaded attempts the request fails
\* with a 500 whose detail embeds the message of the third attempt.
C12_ExhaustedEmbedsLastMessage ==
    (img.pc = "done" /\ img.attempt > 3) =>
        /\ img.nExchange = 3
        /\ ImgFailedOverload
        /\ img.result.kind = "raise"
        /\ img.result.status = 500
        /\ Embeds(img.result.detail, ImgErrorText)
        /\ Embeds(img.result.detail, <<"Rate limited after 3 retries: ">>)

\* C12 witness: three overloaded attempts, the last one raising the "more
\* images than usual" text, which the detail of the failure embeds.
C12_Witness ==
    /\ img.pc = "done"
    /\ img.attempt > 3
    /\ img.outcome = [kind |-> "exception", n |-> 0, text |-> TextMoreImages]
    /\ Embeds(img.result.detail, TextMoreImages)

\* C13: an attempt that comes to at least one image (returned and stored)
\* makes the request succeed; it is attempt k + 1 for a k in {0, 1, 2}, the
\* k attempts before it were overloaded, and the request has slept k times
\* and selected k + 1 accounts.  A request succeeds in no other way.
C13_SuccessAfterKOverloads ==
    /\ (img.outcome.kind = "images" /\ img.pc \in {"finally", "done"}) =>
          /\ (IF img.pc = "done" THEN img.result ELSE img.pending)
                = [kind |-> "return", status |-> 200, n |-> img.outcome.n,
                   detail |-> << >>]
          /\ img.outcome.n >= 1
          /\ img.attempt \in 1 .. 3
          /\ img.nSleep = img.attempt - 1
          /\ img.nSelect = img.attempt
          /\ img.nExchange = img.attempt
          /\ calls = img.attempt
          /\ img.attempt > 1 => img.last_error \in {TextAskAgain, TextMoreImages}
    /\ (img.pc = "done" /\ img.result.kind = "return") =>
          img.outcome.kind = "images"

\* C13 witness: two overloaded attempts, then an image: two sleeps and three
\* selections.
C13_Witness ==
    /\ img.pc = "done"
    /\ img.result.kind = "return"
    /\ img.nSleep = 2
    /\ img.nSelect = 3

\* C14: outside an attempt (at the head of the loop, while the next account
\* is selected, and when the request has ended) no session of the request is
\* open.
C14_SessionClosedEachAttempt ==
    /\ img.open \in {0, 1}
    /\ img.pc \in {"off", "start", "loop", "select", "selecting", "done"} =>
          img.open = 0
    /\ img.pc = "done" => img.client \in {"none", "closed"}

\* C14 witness: the session of an overloaded first attempt is closed when
\* the loop comes round for the second.
C14_Witness ==
    /\ img.pc = "loop"
    /\ img.attempt = 2
    /\ img.nClose = 1
    /\ img.open = 0


\* The chat request has ended with its caller still connected: the response
\* was delivered in full, or the error raised.
ChatEnded == chat.pc = "done" /\ chat.connected

\* C15: when a chat request has ended, with the response delivered in full
\* or the error raised, no session opened for it is still open.
C15_SessionReleased ==
    ChatEnded => chat.open = 0

\* C16: when a chat request whose upstream exchange completed or failed has
\* ended, streaming or not, no temporary attachment file of the request is
\* on disk.
C16_NoFilesAfterExchange ==
    (chat.pc = "done" /\ chat.exchanged # "no") =>
        /\ chat.disk = {}
        /\ chat.failed_part = 0

\* C16 witness: a streaming request with two attachments whose exchange
\* succeeded has ended and its two files are gone.
C16_Witness ==
    /\ chat.pc = "done"
    /\ chat.stream
    /\ chat.exchanged = "ok"
    /\ chat.temp_files = <<1, 2>>
    /\ chat.disk = {}

\* C17: when materializing an attachment failed, the request has failed and
\* the files created for the earlier attachments are not on disk.
C17_PartialFilesDeleted ==
    (chat.pc = "done" /\ chat.failed_part > 0) =>
        /\ chat.result.kind = "raise"
        /\ FileSet(chat.files) \cap chat.disk = {}

\* C18: when a streaming response has ended by the caller's disconnect, at
\* whatever point, the session is released and no temporary file is left.
C18_DisconnectStillCleansUp ==
    (chat.pc = "done" /\ ~chat.connected) =>
        /\ chat.open = 0
        /\ chat.disk = {}

\* A streaming response delivered in full after a successful exchange.
StreamDelivered ==
    /\ chat.stream
    /\ ChatEnded
    /\ chat.exchanged = "ok"

IsContentDelta(e) ==
    /\ e.object = "chat.completion.chunk"
    /\ e.finish_reason = "None"
    /\ Len(e.delta) = 1

IsStopEvent(e) ==
    /\ e.object = "chat.completion.chunk"
    /\ e.finish_reason = "stop"

IsSentinel(e) == e.object = "[DONE]"

\* C19: the events of a stream delivered in full are content deltas, then
\* one event with the finish reason "stop" and no content, then one
\* sentinel; at no time does an event follow the sentinel or a content
\* delta or second stop follow the stop event.
C19_StopThenSentinel ==
    LET ev == chat.events
        n == Len(ev)
    IN  /\ \A k \in 1 .. n : IsSentinel(ev[k]) => k = n
        /\ \A k \in 1 .. n : IsStopEvent(ev[k]) =>
              \A j \in k + 1 .. n : IsSentinel(ev[j])
        /\ StreamDelivered =>
              /\ n >= 2
              /\ IsSentinel(ev[n])
              /\ IsStopEvent(ev[n - 1])
              /\ ev[n - 1].delta = << >>
              /\ \A k \in 1 .. n - 2 : IsContentDelta(ev[k])

\* C19 witness: a delivered stream of two content deltas, the stop event and
\* the sentinel.
C19_Witness ==
    /\ StreamDelivered
    /\ Len(chat.events) = 4
    /\ IsContentDelta(chat.events[2])
    /\ IsStopEvent(chat.events[3])
    /\ IsSentinel(chat.events[4])

\* The content delta events, in emission order.
ContentDeltas == SelectSeq(chat.events, IsContentDelta)

RECURSIVE Concatenated(_)
Concatenated(ds) ==
    IF ds = << >> THEN << >>
    ELSE ds[1].delta[1] \o Concatenated(Tail(ds))

\* C20: every content delta carries between 1 and 10 characters and the
\* deltas emitted so far concatenate to the head of the upstream text; a
\* stream delivered in full carries ceil(L / 10) content deltas, which
\* concatenate to the text of length L.
C20_ChunksCoverText ==
    LET ds == ContentDeltas
        L == Len(chat.text)
        sent == Concatenated(ds)
    IN  /\ \A k \in 1 .. Len(ds) : Len(ds[k].delta[1]) \in 1 .. 10
        /\ Len(sent) <= L
        /\ sent = SubSeq(chat.text, 1, Len(sent))
        /\ StreamDelivered =>
              /\ Len(ds) = (L + 9) \div 10
              /\ sent = chat.text
              /\ (chat.text = <<"O", "K">> => ds[1].delta = <<chat.text>>)

\* C20 witness: a text of 11 characters delivered as a delta of 10 and a
\* delta of 1.
C20_Witness ==
    /\ StreamDelivered
    /\ Len(chat.text) = 11
    /\ Len(ContentDeltas) = 2
    /\ Len(ContentDeltas[1].delta[1]) = 10
    /\ Len(ContentDeltas[2].delta[1]) = 1


\* C21: a streaming chat request sends to the upstream at most once, and
\* exactly once when its event stream is consumed to its end; whenever an event
\* has been emitted, that one exchange has already returned its whole text.
C21_OneExchangeBeforeEvents ==
    chat.stream =>
        /\ chat.nSend \in {0, 1}
        /\ chat.nSend = 1 <=> chat.exchanged # "no"
        /\ chat.events # << >> => (chat.nSend = 1 /\ chat.exchanged = "ok")
        /\ chat.exchanged # "ok" => chat.events = << >>
        /\ (ChatEnded /\ chat.result = ChatStreaming) => chat.nSend = 1

\* C21 witness: a stream delivered in full, three content deltas among its
\* events, after a single exchange.
C21_Witness ==
    /\ StreamDelivered
    /\ chat.nSend = 1
    /\ Len(chat.events) = 5


\* The regular files the pass found in the directory when it listed it.
ListedFiles == {f \in DOMAIN sweep.dir0 : sweep.dir0[f].kind = "file"}

\* Those of them older than the expiry window at the time of the pass.
ListedExpired ==
    {f \in ListedFiles :
        sweep.now - sweep.dir0[f].mtime > IMAGE_EXPIRY_HOURS * 3600}

\* C22: when a pass is over, every regular file that was older than the
\* expiry window is gone, unless its own removal failed, and no file within
\* the window and no subdirectory was removed by the pass.
C22_SweepDeletesExpiredOnly ==
    sweep.pc = "sleep" =>
        /\ \A f \in ListedExpired \ sweep.failed : f \notin DOMAIN sweep.dir
        /\ sweep.removed \subseteq ListedExpired
        /\ \A f \in DOMAIN sweep.dir0 :
              sweep.dir0[f].kind = "dir" => f \in DOMAIN sweep.dir

\* C23: when a pass in which the handling of some file failed (its removal
\* raised, or it disappeared after it was listed) is over, every other
\* expired file is gone.
C23_FailureDoesNotStopSweep ==
    (sweep.pc = "sleep" /\ sweep.failed \cup sweep.vanished # {}) =>
        \A f \in ListedExpired \ (sweep.failed \cup sweep.vanished) :
            f \notin DOMAIN sweep.dir


\* C24: when the account selection of a request has raised, the request is
\* ending with a 503 whose detail carries the manager's error: an image
\* request has, on that attempt, built no client (so has no session open),
\* and has slept and exchanged only on its earlier attempts; a chat request
\* has built no client, written no file and sent nothing.
C24_NoAccountIs503 ==
    /\ (pc[ImgCaller] = "raised" /\ img.pc \notin {"off", "selecting"}) =>
          /\ img.pc \in {"finally", "done"}
          /\ (IF img.pc = "done" THEN img.result ELSE img.pending)
                = [kind |-> "raise", status |-> 503, n |-> 0,
                   detail |-> <<"No available accounts: ", ret[ImgCaller].error>>]
          /\ img.client = "none"
          /\ img.open = 0
          /\ img.attempt \in 1 .. 3
          /\ img.nSelect = img.attempt
          /\ img.nInit = img.attempt - 1
          /\ img.nExchange = img.attempt - 1
          /\ img.nSleep = img.attempt - 1
    /\ (pc[ImgCaller] = "raised" /\ chat.pc \notin {"off", "selecting"}) =>
          /\ chat.pc = "done"
          /\ chat.result.kind = "raise"
          /\ chat.result.status = 503
          /\ chat.result.detail
                = <<"No available accounts: ", ret[ImgCaller].error>>
          /\ chat.client = "none"
          /\ chat.open = 0
          /\ chat.nSend = 0
          /\ chat.disk = {}

\* C24 witness: the only enabled account was disabled while the image
\* request slept after an overloaded first attempt; the second selection
\* found no account and the request ended with the 503.
C24_Witness ==
    /\ img.pc = "done"
    /\ img.attempt = 2
    /\ img.nSleep = 1
    /\ got[ImgCaller] = "200"
    /\ ret[ImgCaller] = Raised("NoAccountAvailable")
    /\ img.result.status = 503


\* C25: a get_account call the store answered returns the stored row of the
\* alias asked for, whether the row is enabled or not, and raises
\* AccountNotFound when the table has no such row; no call, answered or not,
\* changes the table.
C25_LookupByAlias ==
    (adm.pc = "done" /\ adm.op = "get_account") =>
        /\ store = adm.before
        /\ (adm.outcome = "200" /\ adm.alias \in DOMAIN store) =>
              /\ adm.result.kind = "ok"
              /\ adm.result.account.alias = adm.alias
              /\ \A col \in DOMAIN store[adm.alias] :
                    adm.result.account[col] = store[adm.alias][col]
        /\ (adm.outcome = "200" /\ adm.alias \notin DOMAIN store) =>
              adm.result = [kind |-> "error",
                            error |-> <<"Account '", adm.alias, "' not found">>]

\* C25 witness: the row of a disabled account was looked up and returned.
C25_Witness ==
    /\ adm.pc = "done"
    /\ adm.op = "get_account"
    /\ adm.alias \in DOMAIN store
    /\ ~store[adm.alias].enabled
    /\ adm.result.kind = "ok"
    /\ adm.result.account.enabled = FALSE

\* C26: when a reset_counts call that the store applied has returned, every
\* row of the table has call_count 0.
C26_AllCountsZero ==
    (adm.pc = "done" /\ adm.op = "reset_counts" /\ adm.outcome = "ok") =>
        \A a \in DOMAIN store : store[a].call_count = 0


\* The characters c and d are the same letter, in whichever case, or the
\* same character.
SameLetter(c, d) ==
    \/ c = d
    \/ \E i \in 1 .. Len(UpperCase) :
          {c, d} = {UpperCase[i], LowerCase[i]}

\* The phrase occurs in t at some position, letter for letter, whatever the
\* case of the letters of t.
CarriesPhrase(phrase, t) ==
    \E i \in 1 .. Len(t) - Len(phrase) + 1 :
        \A j \in 1 .. Len(phrase) : SameLetter(t[i + j - 1], phrase[j])

\* C27: an attempt whose exchange ended without images, by a response or by
\* an exception, is treated as overloaded (it sleeps and continues) exactly
\* when its text carries "ask me again later" or "more images than usual"
\* in any case; otherwise it raises.
C27_OverloadTestExact ==
    (/\ img.outcome.kind \in {"no_images", "exception", "save_exception"}
     /\ img.nExchange = img.attempt
     /\ img.pc \in {"sleep", "finally"}) =>
        /\ (img.pc = "sleep" \/ img.pending.kind = "continue")
              <=> \/ CarriesPhrase(AskAgainPhrase, ImgErrorText)
                  \/ CarriesPhrase(MoreImagesPhrase, ImgErrorText)
        /\ (img.pc = "finally" /\ img.pending.kind # "continue") =>
              img.pending.kind = "raise"

\* C27 witness: a response without images whose text is "Ask Me Again
\* Later." is being slept on.
C27_Witness ==
    /\ img.pc = "sleep"
    /\ img.outcome = [kind |-> "no_images", n |-> 0, text |-> TextAskAgain]


\* The row r with the usage columns of the row q.
WithUsageOf(r, q) ==
    [r EXCEPT !.call_count = q.call_count, !.last_used = q.last_used]

\* C28: the table after a get_next_account call has the rows it had when
\* the call queried it; every row but the selected one is as it was, and
\* the selected row differs at most in call_count and last_used.  Over any
\* number of calls no row differs from its initial value in another column.
C28_OnlyUsageColumnsChange ==
    /\ DOMAIN store = DOMAIN pre
    /\ DOMAIN store = DOMAIN store0
    /\ \A a \in DOMAIN store :
          /\ a # acct[SeqCaller].alias => store[a] = pre[a]
          /\ WithUsageOf(store[a], pre[a]) = pre[a]
          /\ WithUsageOf(store[a], store0[a]) = store0[a]

\* C28 witness: a call has returned after its update was applied, on a
\* table with another enabled row, which is as it was.
C28_Witness ==
    /\ SeqReturned
    /\ upd[SeqCaller] = "ok"
    /\ store # pre
    /\ \E a \in EnabledAliases(store) :
          a # acct[SeqCaller].alias /\ store[a] = pre[a]


\* C29: the request sleeps only while another attempt remains, and a request
\* that failed by exhausting its three attempts has slept twice.
C29_NoSleepOnLastAttempt ==
    /\ img.pc = "sleep" => img.attempt < 3
    /\ (img.pc = "done" /\ img.attempt > 3) => img.nSleep = 2

\* C30: a success result, pending or delivered, comes from an exchange of
\* the same attempt whose response carried at least one image, and its data
\* list has one entry per image; an attempt whose response carried no image
\* has no success result.
C30_SuccessNeedsAnImage ==
    LET e == IF img.pc = "done" THEN img.result ELSE img.pending
    IN  /\ e.kind = "return" =>
              /\ img.outcome.kind = "images"
              /\ img.nExchange = img.attempt
              /\ e.n = img.outcome.n
              /\ e.n >= 1
        /\ (img.outcome.kind = "no_images" /\ img.nExchange = img.attempt) =>
              e.kind # "return"

\* C30 witness: the first attempt's response carried an image and the
\* request succeeded with a data list of one entry.
C30_Witness ==
    /\ img.pc = "done"
    /\ img.result.kind = "return"
    /\ img.result.n = 1
    /\ img.attempt = 1


\* C31: when client.init() of the current attempt of an image request has
\* raised, whatever its text, the client is closed and the request is
\* ending with the 500 of init_client, having slept and exchanged only on
\* its earlier attempts; when client.init() of a chat request has raised,
\* the client is closed and the request has ended with that 500 without an
\* exchange.
C31_InitFailureFailsFast ==
    /\ (~img.init.ok /\ img.nInit = img.attempt) =>
          /\ img.pc \in {"finally", "done"}
          /\ (IF img.pc = "done" THEN img.result ELSE img.pending)
                = [kind |-> "raise", status |-> 500, n |-> 0,
                   detail |-> <<"Failed to initialize Gemini client">>]
          /\ img.client = "closed"
          /\ img.open = 0
          /\ img.attempt \in 1 .. 3
          /\ img.nSelect = img.attempt
          /\ img.nExchange = img.attempt - 1
          /\ img.nSleep = img.attempt - 1
    /\ chat.init = "failed" =>
          /\ chat.pc = "done"
          /\ chat.result.kind = "raise"
          /\ chat.result.status = 500
          /\ chat.result.detail = <<"Failed to initialize Gemini client">>
          /\ chat.client = "closed"
          /\ chat.open = 0
          /\ chat.nSend = 0
          /\ chat.exchanged = "no"

\* C31 witness: on the second of three attempts client.init() raised with
\* an overload text, and the image request ended after its one sleep.
C31_Witness ==
    /\ img.pc = "done"
    /\ img.attempt = 2
    /\ img.init = [ok |-> FALSE, text |-> TextAskAgain]
    /\ img.nSleep = 1
    /\ img.result.status = 500


\* The subdirectories the pass found when it listed the directory.
ListedDirs == {f \in DOMAIN sweep.dir0 : sweep.dir0[f].kind = "dir"}

\* C32: during and after a pass every subdirectory of the asset directory,
\* however old, is where it was with what it held, and the pass has removed
\* only regular files it listed.
C32_SubdirectoriesUntouched ==
    /\ \A f \in ListedDirs :
          /\ f \in DOMAIN sweep.dir
          /\ sweep.dir[f] = sweep.dir0[f]
    /\ sweep.removed \subseteq ListedFiles
    /\ sweep.failed \subseteq ListedFiles

\* C32 witness: a pass that removed an expired file is over, and a
\* subdirectory older than the window still holds its file.
C32_Witness ==
    /\ sweep.pc = "sleep"
    /\ sweep.removed # {}
    /\ \E f \in ListedDirs :
          /\ sweep.dir0[f].inside = 1
          /\ sweep.now - sweep.dir0[f].mtime > IMAGE_EXPIRY_HOURS * 3600
          /\ sweep.dir[f] = sweep.dir0[f]


\* The callers that have called get_next_account.
Called == {p \in Callers : pc[p] # "idle"}

\* The sum of call_count over all rows of a table.
TotalCount(s) == SumOver([a \in DOMAIN s |-> s[a].call_count], DOMAIN s)

\* C33: when k callers have each made one get_next_account call, in any
\* interleaving, and every call has returned with its update applied, the sum
\* of call_count over all rows has grown by at least 1 and at most k; it has
\* grown by exactly k when no call read a row that another call had read and
\* not yet written (which is so, in particular, when no two calls overlap).
C33_RaceGrowthBounds ==
    (/\ Called # {}
     /\ calls = Cardinality(Called)
     /\ \A p \in Called : pc[p] = "returned" /\ upd[p] = "ok") =>
        LET growth == TotalCount(store) - TotalCount(store0)
        IN  /\ growth >= 1
            /\ growth <= calls
            /\ (\A p \in Called : ~raced[p]) => growth = calls

\* C33 witness: two calls read the same row before either wrote it, both
\* returned, and the sum has grown by 1.
C33_Witness ==
    /\ calls = 2
    /\ Cardinality(Called) = 2
    /\ \A p \in Called : pc[p] = "returned" /\ upd[p] = "ok" /\ raced[p]
    /\ TotalCount(store) - TotalCount(store0) = 1


\* C34: under sequential get_next_account calls on a static pool of at least
\* two enabled rows, a call leaves the spread of call_count over the enabled
\* rows equal or smaller when it was at least 1 in the table the call read,
\* and a call whose update the store applies makes it exactly 1 when it was
\* 0; a call whose update is not applied leaves the table as it read it.
C34_SpreadNeverGrows ==
    Cardinality(Usable(pre)) >= 2 =>
        /\ Usable(store) = Usable(pre)
        /\ Spread(pre) >= 1 => Spread(store) <= Spread(pre)
        /\ (Spread(pre) = 0 /\ store # pre) => Spread(store) = 1
        /\ (SeqEnded /\ upd[SeqCaller] = "ok" /\ SeqReturned) => store # pre
        /\ upd[SeqCaller] \in {"none", "rejected"} => store = pre

\* C34 witness: a call that read a level pool of two or more enabled rows
\* has returned with a spread of 1, after an earlier call had narrowed a
\* wider spread.
C34_Witness ==
    /\ SeqReturned
    /\ upd[SeqCaller] = "ok"
    /\ Cardinality(Usable(pre)) >= 2
    /\ Spread(store0) >= 2
    /\ Spread(pre) = 0
    /\ Spread(store) = 1


\* C35: an image request holds at most one open session at a time: a session
\* is opened only when none is open, the selection of the next account starts
\* only when the session of the attempt before has been closed, and the step
\* that ends the request with its result or error leaves no session open.
C35_OneSessionAtATime ==
    [][/\ img'.open > img.open => (img.open = 0 /\ img'.open = 1)
       /\ img'.nSelect > img.nSelect =>
             /\ img.open = 0
             /\ img.client \in {"none", "closed"}
             /\ img.attempt > 1 => img.nClose >= 1
       /\ (img.pc # "done" /\ img'.pc = "done") =>
             (img'.open = 0 /\ img'.client \in {"none", "closed"})]_vars

\* C35 witness: the third attempt holds its session, the only one open, after
\* the sessions of the first two attempts were closed.
C35_Witness ==
    /\ img.attempt = 3
    /\ img.pc = "exchange"
    /\ img.open = 1
    /\ img.nClose = 2
    /\ img.nInit = 3


\* The terminal states of an image request: the response returned, or the
\* HTTP error raised.
ImgSucceeded == img.pc = "done" /\ img.result.kind = "return"

ImgFailed == img.pc = "done" /\ img.result.kind = "raise"

\* C36: when every store call, upstream call and sleep returns, an image
\* request eventually reaches Succeeded or Failed, it has begun at most 3
\* attempts by then, and once in a terminal state it stays in it unchanged.
C36_RequestTerminates ==
    /\ <>(ImgSucceeded \/ ImgFailed)
    /\ []((ImgSucceeded \/ ImgFailed) =>
             /\ img.nSelect <= MAX_RETRIES
             /\ img.nExchange <= MAX_RETRIES)
    /\ [][(ImgSucceeded \/ ImgFailed) => img' = img]_vars

\* C36 witness: a request that failed after three attempts, each of which
\* was overloaded.
C36_Witness ==
    /\ ImgFailed
    /\ img.nExchange = 3
    /\ img.nSleep = 3
    /\ img.result.status = 500


\* What an ended image request has done: its selections, exchanges, sleeps
\* and session closes, and its result.
ImgRun ==
    [nSelect |-> img.nSelect, nExchange |-> img.nExchange,
     nSleep |-> img.nSleep, nClose |-> img.nClose, result |-> img.result]

\* What the outcomes of the attempts determine, whatever the endpoint: the
\* attempts before the last were overloaded exchanges, each with a selection,
\* a sleep and a close; the last attempt is a selection that failed, an
\* initialisation that failed, an exchange that succeeded or failed for good,
\* or there is none because all 3 were overloaded.
ImgRunOfOutcomes ==
    LET k == img.attempt - 1
    IN  CASE img.attempt > MAX_RETRIES ->
               [nSelect |-> k, nExchange |-> k, nSleep |-> k, nClose |-> k,
                result |-> HttpError(500, ExhaustedDetail(img.last_error))]
          [] img.attempt <= MAX_RETRIES /\ pc[ImgCaller] = "raised" ->
               [nSelect |-> k + 1, nExchange |-> k, nSleep |-> k, nClose |-> k,
                result |-> HttpError(503,
                              NoAccountsDetail(ret[ImgCaller].error))]
          [] img.attempt <= MAX_RETRIES /\ pc[ImgCaller] # "raised"
                /\ ~img.init.ok ->
               [nSelect |-> k + 1, nExchange |-> k, nSleep |-> k,
                nClose |-> k + 2, result |-> InitFailure(img.init)]
          [] OTHER ->
               [nSelect |-> k + 1, nExchange |-> k + 1, nSleep |-> k,
                nClose |-> k + 1, result |-> AfterExchange(img.outcome)]

RowBut(r, columns) ==
    [c \in DOMAIN r |-> IF c \in columns THEN NULL ELSE r[c]]

\* The columns an ingestion may write on a stored row: the tokens and
\* last_updated, proxy when the payload has one, headers when it has some.
IngestColumns ==
    {"psid", "psidts", "last_updated"}
    \cup (IF bridge.proxy # NULL THEN {"proxy"} ELSE {})
    \cup (IF Truthy(bridge.headers) THEN {"headers"} ELSE {})

\* C38: a POST /api/cookies for an alias that is stored changes on that row
\* at most the tokens, last_updated, and proxy and headers when supplied, and
\* leaves its call_count and enabled as they were (and every other row as it
\* was), setting the tokens of the payload when the store applies the
\* update; for a new alias the row the store adds has enabled = true and
\* call_count = 0; a payload without alias or without either token ends in a
\* 400 with no request made to the store.
C38_IngestKeepsUsage ==
    /\ [][/\ \A a \in DOMAIN store :
               /\ a \in DOMAIN store'
               /\ store'[a].call_count = store[a].call_count
               /\ store'[a].enabled = store[a].enabled
               /\ store'[a] # store[a] =>
                     /\ a = bridge.alias
                     /\ RowBut(store'[a], IngestColumns)
                           = RowBut(store[a], IngestColumns)
          /\ \A a \in DOMAIN store' \ DOMAIN store :
               /\ a = bridge.alias
               /\ store'[a].enabled = TRUE
               /\ store'[a].call_count = 0
               /\ store'[a].psid = bridge.psid
               /\ store'[a].psidts = bridge.psidts
          /\ (bridge.pc = "patch" /\ bridge'.write = "ok") =>
               /\ store'[bridge.alias].psid = bridge.psid
               /\ store'[bridge.alias].psidts = bridge.psidts
               /\ store'[bridge.alias].last_updated = bridge.timestamp
          /\ (bridge.pc = "post" /\ bridge'.write = "ok"
                /\ bridge.alias \notin DOMAIN store) =>
               bridge.alias \in DOMAIN store']_vars
    /\ []((bridge.pc = "done" /\ bridge.configured
             /\ ~(/\ Truthy(Or(bridge.payload.dunder_psid,
                               bridge.payload.secure_1psid))
                  /\ Truthy(Or(bridge.payload.dunder_psidts,
                               bridge.payload.secure_1psidts))
                  /\ Truthy(bridge.payload.alias))) =>
             /\ bridge.result = BridgeError(400)
             /\ bridge.nGet = 0
             /\ bridge.nWrite = 0
             /\ store = store0)
    /\ [](bridge.result.status = 400 =>
             ~(Truthy(bridge.psid) /\ Truthy(bridge.psidts)
                 /\ Truthy(bridge.alias)))

\* C38 witness: credentials were ingested again for a stored, disabled alias
\* with a call_count above 0, and the row holds the new tokens and the usage
\* it had.
C38_Witness ==
    /\ bridge.pc = "done"
    /\ bridge.result.action = "updated"
    /\ bridge.write = "ok"
    /\ store[bridge.alias].psid = "sid2"
    /\ store[bridge.alias].psidts = "ts2"
    /\ store[bridge.alias].call_count = 5
    /\ store[bridge.alias].enabled = FALSE
    /\ store[bridge.alias].last_updated # store0[bridge.alias].last_updated


\* The entry f is a regular file older than the expiry window.
StaysExpired(f) ==
    /\ IsFile(sweep.dir, f)
    /\ IsExpired(sweep.now, sweep.dir[f].mtime)

\* C39: the task never stops: a pass always begins again, also after a pass
\* that an error ended, and between two passes the task sleeps; so every
\* regular file older than the expiry window is eventually gone, or the
\* task has tried to remove it and the removal failed.
C39_SweepNeverStops ==
    /\ []<>(sweep.pc = "start")
    /\ [](sweep.aborted => <>(sweep.pc = "start" /\ sweep.aborted))
    /\ [][sweep'.pc = "start" => sweep.pc = "sleep"]_vars
    /\ \A f \in FileNames :
          StaysExpired(f) ~> (f \notin DOMAIN sweep.dir \/ f \in sweep.failed)

\* C39 witness: after a pass that an error ended the task has slept and is
\* at the head of its next pass, with an expired regular file still there
\* that the ended pass had not come to.
C39_Witness ==
    /\ sweep.pc = "start"
    /\ sweep.pass = 2
    /\ sweep.aborted
    /\ \E f \in FileNames \ sweep.failed :
          /\ StaysExpired(f)
          /\ IsExpired(sweep.now - CLEANUP_INTERVAL, sweep.dir[f].mtime)

====
